---- MODULE Spec2Model ----
(***************************************************************************)
(* A model of optopodi: the producer/consumer pipeline over a bounded      *)
(* tokio mpsc channel (producers ListReposForOrg, IssueClosures and        *)
(* RepoParticipants; consumers Print and ExportToSheets) and the cursor    *)
(* loop all_repos that accumulates the pages of a GraphQL query.           *)
(*                                                                         *)
(* Strings are sequences of chunks (TLA+ strings), so that concatenation   *)
(* and decimal formatting (to_string) are computed, not assumed.  A row is *)
(* a sequence of such strings (Vec<String>).                               *)
(***************************************************************************)
EXTENDS Integers, Sequences, FiniteSets

(***************************************************************************)
(* Bounds of the model.                                                    *)
(***************************************************************************)
MaxRepos == 2
MaxPages == 3
MaxRequests == 5
RunAhead == 1
MaxEdges == 3
MaxCategories == 4
MaxRecords == 3
MaxCount == 12
MaxRows == 2
MaxCalls == 3

(***************************************************************************)
(* Program constants.                                                      *)
(***************************************************************************)
ChannelCapacity == 400
MaxColumn == 18277

\* Option<T>.
None == <<"None">>
Some(x) == <<"Some", x>>
IsSome(o) == o[1] = "Some"
Unwrap(o) == o[2]

\* Result<T, E> of a function that may also panic.
Ok(x) == <<"Ok", x>>
Err(e) == <<"Err", e>>
Panic(m) == <<"Panic", m>>

(***************************************************************************)
(* Strings.                                                                *)
(***************************************************************************)
Str(s) == <<s>>

Digit == <<"0", "1", "2", "3", "4", "5", "6", "7", "8", "9">>

RECURSIVE to_string(_)
to_string(n) ==
    IF n < 10 THEN <<Digit[n + 1]>>
    ELSE to_string(n \div 10) \o <<Digit[(n % 10) + 1]>>

RepoName(k) == <<"repo">> \o to_string(k)

org_name == Str("org")
start_date == Str("2021-01-01")
end_date == Str("2021-02-01")

(***************************************************************************)
(* The producers and what they send.                                       *)
(***************************************************************************)
ProducerKinds ==
    {"ListReposForOrg", "IssueClosures", "RepoParticipants", "RepoParticipantsOne"}

ConsumerKinds == {"Print", "ExportToSheets", "ExportToSheetsUnit"}

ColumnNames(kind) ==
    CASE kind = "ListReposForOrg" ->
           <<Str("Repository Name"), Str("# of PRs")>>
      [] kind = "IssueClosures" ->
           <<Str("Organization"), Str("Repository"), Str("Issues Opened"),
             Str("Issues Closed"), Str("Start Date"), Str("End Date")>>
      [] OTHER ->
           <<Str("Participant"), Str("Repository"), Str("PRs participated in"),
             Str("PRs authored"), Str("PRs reviewed"), Str("PRs resolved")>>

ListReposRow(repo, count_prs) == <<repo, to_string(count_prs)>>

\* The organization is left out of the row.
IssueClosuresRowWithoutOrg(repo, opened, closed) ==
    <<repo, to_string(opened), to_string(closed), start_date, end_date>>

IssueClosuresRow(repo, opened, closed) ==
    <<org_name, repo, to_string(opened), to_string(closed), start_date, end_date>>

ParticipantRow(repo, p) ==
    <<Str(p.login), repo, to_string(p.participated_in), to_string(p.authored),
      to_string(p.reviewed), to_string(p.resolved)>>

\* The counts an upstream query can report.
Counts == {0, 12}

NeedsAllRepos(kind) == kind \in {"ListReposForOrg", "RepoParticipants"}

\* An unbounded channel: send never waits.
HasCapacityAlways(rows) == TRUE

\* send completes only when the bounded channel has a free slot.
HasCapacity(rows) == Len(rows) < ChannelCapacity

\* The failed send is swallowed.
OnSendErrorIgnored == "ok"

\* The result of a send that failed because the receiver is gone.
OnSendError == "err_send"

\* The result of a producer whose upstream fetch failed.
OnFetchError == "err_fetch"

(***************************************************************************)
(* The consumers and what they write.                                      *)
(***************************************************************************)
HeaderRecord(column_names) == <<Str("#")>> \o column_names

DataRecord(row_index, entry) == <<to_string(row_index)>> \o entry

\* The counter is never advanced.
NextRowIndexStuck(row_index) == row_index

NextRowIndex(row_index) == row_index + 1

FirstStep(kind) == IF kind = "Print" THEN "header" ELSE "initialize"

\* Does the consumer return the error of a failed sink operation?
ReturnsSinkError(kind) == kind \in {"Print", "ExportToSheets"}

\* The loop stops as soon as the sender is gone, whatever is buffered.
EndOfStreamOnClose(buffer, senderOpen) == ~senderOpen

\* recv() yields None: nothing buffered and every sender dropped.
EndOfStream(buffer, senderOpen) == buffer = <<>> /\ ~senderOpen

Op(name, record, ok) == [op |-> name, rec |-> record, ok |-> ok]

(***************************************************************************)
(* all_repos: the cursor loop over the pages of the OrgRepos query.        *)
(***************************************************************************)
\* The name of the repository at position j of page k.
NodeName(k, j) == <<"repo">> \o to_string(k) \o <<".">> \o to_string(j)

\* The shapes of `edges` in a response: absent, or a list whose entries are a
\* node with a name ("node"), a null edge or an edge with a null node.
EdgeShapes ==
    {None,
     Some(<<>>),
     Some(<<"node">>),
     Some(<<"node", "null_edge", "node">>),
     Some(<<"null_node", "node">>)}

Edge(k, j, shape) ==
    CASE shape = "node" -> Some([node |-> Some([name |-> NodeName(k, j)])])
      [] shape = "null_node" -> Some([node |-> None])
      [] OTHER -> None

Edges(k, shapes) ==
    IF IsSome(shapes)
    THEN Some([j \in 1 .. Len(Unwrap(shapes)) |-> Edge(k, j, Unwrap(shapes)[j])])
    ELSE None

\* What a response can be: no data, no organization, or a page of edges with
\* or without an endCursor.
PageShapes ==
    {[kind |-> "no_data", edges |-> None, cursor |-> TRUE],
     [kind |-> "no_org", edges |-> None, cursor |-> TRUE]}
    \cup [kind : {"ok"}, edges : EdgeShapes, cursor : BOOLEAN]

\* Page k of n, as the server answers it.
Page(k, n, shape) ==
    [kind |-> shape.kind,
     edges |-> Edges(k, shape.edges),
     has_next_page |-> k < n,
     end_cursor |-> IF shape.cursor THEN Some(k) ELSE None]

\* The server: no cursor asks for the first page, the endCursor of page k
\* for page k + 1.
PageAfter(cursor) == IF IsSome(cursor) THEN Unwrap(cursor) + 1 ELSE 1

\* The next request carries no cursor.
NextCursorNone(page) == None

\* after_cursor = repos_data.page_info.end_cursor
NextCursor(page) == page.end_cursor

\* The edges are pushed in front of what was accumulated.
RECURSIVE PushNamesInFront(_, _)
PushNamesInFront(repos, edges) ==
    IF edges = <<>> THEN repos
    ELSE PushNamesInFront(
           IF IsSome(Head(edges)) /\ IsSome(Unwrap(Head(edges)).node)
           THEN <<Unwrap(Unwrap(Head(edges)).node).name>> \o repos
           ELSE repos,
           Tail(edges))

\* repos.push(name) for every edge that has a node.
RECURSIVE PushNames(_, _)
PushNames(repos, edges) ==
    IF edges = <<>> THEN repos
    ELSE PushNames(
           IF IsSome(Head(edges)) /\ IsSome(Unwrap(Head(edges)).node)
           THEN Append(repos, Unwrap(Unwrap(Head(edges)).node).name)
           ELSE repos,
           Tail(edges))

\* The failed request is swallowed and what was accumulated is returned.
OnRequestErrorReturnsPartial(repos) == Ok(repos)

\* execute(..).await? : the error of the request is the function's result.
OnRequestError(repos) == Err("request")

\* An absent organization is reported as an error.
OnNoOrganizationFails(repos) == Err("organization not found")

\* The organization is absent: break, and the function returns `repos`.
OnNoOrganization(repos) == Ok(repos)

(***************************************************************************)
(* pr_participants: the PrsAndParticipants query and the counts per login. *)
(***************************************************************************)
\* An Actor of a response: only a User carries a login.
User(l) == [on |-> "User", login |-> l]
Bot == [on |-> "Bot"]

\* The bytes of the logins; String orders by them.
LoginBytes(l) ==
    CASE l = "alice" -> <<97, 108, 105, 99, 101>>
      [] l = "bob" -> <<98, 111, 98>>
      [] l = "carol" -> <<99, 97, 114, 111, 108>>
      [] l = "bors" -> <<98, 111, 114, 115>>

\* Ord for String: lexicographic on the bytes.
RECURSIVE BytesLess(_, _)
BytesLess(x, y) ==
    IF y = <<>> THEN FALSE
    ELSE IF x = <<>> THEN TRUE
    ELSE IF Head(x) # Head(y) THEN Head(x) < Head(y)
    ELSE BytesLess(Tail(x), Tail(y))

LoginLess(a, b) == BytesLess(LoginBytes(a), LoginBytes(b))

\* A participant edge with its node.
ParticipantEdge(l) == Some([node |-> Some([login |-> l])])

\* A review node with its author.
ReviewNode(actor) == Some([author |-> Some(actor)])

\* The pull requests the search can return.
PullRequests ==
    { \* alice's, reviewed twice by bob, merged by bob
      [author |-> Some(User("alice")),
       participants |-> [edges |-> Some(<<ParticipantEdge("alice"),
                                          ParticipantEdge("bob")>>),
                         total_count |-> 2],
       reviews |-> Some([nodes |-> Some(<<ReviewNode(User("bob")),
                                          ReviewNode(User("bob"))>>),
                         total_count |-> 2]),
       merged_by |-> Some(User("bob"))],
      \* bob's, reviewed by alice and by bob himself, with a null review
      \* node, a null participant edge and an edge without node; not merged
      [author |-> Some(User("bob")),
       participants |-> [edges |-> Some(<<ParticipantEdge("bob"), None,
                                          ParticipantEdge("alice"),
                                          Some([node |-> None]),
                                          ParticipantEdge("carol")>>),
                         total_count |-> 3],
       reviews |-> Some([nodes |-> Some(<<ReviewNode(User("alice")), None,
                                          ReviewNode(User("bob"))>>),
                         total_count |-> 3]),
       merged_by |-> None],
      \* a bot's, reviewed by a bot and by nobody, merged by a bot
      [author |-> Some(Bot),
       participants |-> [edges |-> Some(<<ParticipantEdge("carol")>>),
                         total_count |-> 1],
       reviews |-> Some([nodes |-> Some(<<ReviewNode(Bot),
                                          Some([author |-> None])>>),
                         total_count |-> 2]),
       merged_by |-> Some(Bot)],
      \* without author, participants or reviews; merged by alice
      [author |-> None,
       participants |-> [edges |-> None, total_count |-> 0],
       reviews |-> Some([nodes |-> None, total_count |-> 0]),
       merged_by |-> Some(User("alice"))],
      \* more participants than the page of participants holds
      [author |-> Some(User("carol")),
       participants |-> [edges |-> Some(<<ParticipantEdge("alice")>>),
                         total_count |-> 2],
       reviews |-> Some([nodes |-> Some(<<>>), total_count |-> 0]),
       merged_by |-> Some(User("carol"))],
      \* more reviews than the page of reviews holds
      [author |-> Some(User("alice")),
       participants |-> [edges |-> Some(<<ParticipantEdge("alice"),
                                          ParticipantEdge("bob")>>),
                         total_count |-> 2],
       reviews |-> Some([nodes |-> Some(<<ReviewNode(User("bob"))>>),
                         total_count |-> 3]),
       merged_by |-> Some(User("alice"))],
      \* without reviews
      [author |-> Some(User("bob")),
       participants |-> [edges |-> Some(<<ParticipantEdge("bob")>>),
                         total_count |-> 1],
       reviews |-> None,
       merged_by |-> None] }

\* The edges of the search: a pull request, a node of another type, an edge
\* without node, or a null edge.
SearchEdges ==
    {Some([node |-> Some([typename |-> "PullRequest", pr |-> p])]) :
        p \in PullRequests}
    \cup {Some([node |-> Some([typename |-> "Issue"])]),
          Some([node |-> None]),
          None}

\* ParticipantCounts::default().
DefaultCounts ==
    [participated_in |-> 0, authored |-> 0, reviewed |-> 0, resolved |-> 0]

\* counts.entry(login).or_default(): the HashMap with an entry for login.
Entry(counts, login) ==
    [l \in (DOMAIN counts) \cup {login} |->
        IF l \in DOMAIN counts THEN counts[l] ELSE DefaultCounts]

\* counts.entry(login).or_default().field += 1
Increment(counts, login, field) ==
    [Entry(counts, login) EXCEPT ![login][field] = @ + 1]

\* The login of the author, when the author is a User.
AuthorLogin(pr) ==
    IF IsSome(pr.author) /\ Unwrap(pr.author).on = "User"
    THEN Some(Unwrap(pr.author).login)
    ELSE None

\* Nobody is taken for the author.
is_author_never(author, s) == FALSE

\* is_author: author.iter().any(|a| a == s)
is_author(author, s) == IsSome(author) /\ Unwrap(author) = s

\* The participants loop over `edges`: <<counts, participants_found>>.
RECURSIVE CountParticipants(_, _, _, _)
CountParticipants(counts, found, edges, author) ==
    IF edges = <<>> THEN <<counts, found>>
    ELSE LET edge == Head(edges)
         IN  IF IsSome(edge) /\ IsSome(Unwrap(edge).node)
             THEN LET login == Unwrap(Unwrap(edge).node).login
                  IN  CountParticipants(
                        IF ~is_author(author, login)
                        THEN Increment(counts, login, "participated_in")
                        ELSE counts,
                        found + 1, Tail(edges), author)
             ELSE CountParticipants(counts, found, Tail(edges), author)

\* The reviewers HashSet: the logins of the User authors of the review nodes.
Reviewers(nodes) ==
    {Unwrap(Unwrap(nodes[k]).author).login :
        k \in {j \in 1 .. Len(nodes) :
                 /\ IsSome(nodes[j])
                 /\ IsSome(Unwrap(nodes[j]).author)
                 /\ Unwrap(Unwrap(nodes[j]).author).on = "User"}}

\* A review of one's own pull request counts as well.
CountReviewersWithAuthor(counts, reviewers, author) ==
    [l \in (DOMAIN counts) \cup reviewers |->
       IF l \in reviewers
       THEN [Entry(counts, l)[l] EXCEPT !.reviewed = @ + 1]
       ELSE counts[l]]

\* for reviewer in reviewers: one increment per login of the set, those of
\* distinct logins in any order.
CountReviewers(counts, reviewers, author) ==
    LET counted == {r \in reviewers : ~is_author(author, r)}
    IN  [l \in (DOMAIN counts) \cup counted |->
           IF l \in counted
           THEN [Entry(counts, l)[l] EXCEPT !.reviewed = @ + 1]
           ELSE counts[l]]

CountAuthored(counts, author) ==
    IF IsSome(author) THEN Increment(counts, Unwrap(author), "authored")
    ELSE counts

\* The merge is not counted.
CountResolvedSkipped(counts, pr) == counts

CountResolved(counts, pr) ==
    IF IsSome(pr.merged_by) /\ Unwrap(pr.merged_by).on = "User"
    THEN Increment(counts, Unwrap(pr.merged_by).login, "resolved")
    ELSE counts

\* The incomplete list is taken for the whole.
BailIgnored(counts) == Ok(counts)

\* anyhow::bail!
Bail(counts) == Err("FIXME: pagination support for participants list")

\* The body of the loop over the pull requests, for one pull request.
CountPullRequest(counts, pr) ==
    LET author == AuthorLogin(pr)
        edges == IF IsSome(pr.participants.edges)
                 THEN Unwrap(pr.participants.edges) ELSE <<>>
        participated == CountParticipants(counts, 0, edges, author)
        participants_found == participated[2]
        checked == IF participants_found # pr.participants.total_count
                   THEN Bail(participated[1]) ELSE Ok(participated[1])
    IN  IF checked[1] # "Ok" THEN checked
        ELSE IF ~IsSome(pr.reviews) THEN Panic("unwrap on None")
        ELSE LET reviews == Unwrap(pr.reviews)
                 nodes == IF IsSome(reviews.nodes)
                          THEN Unwrap(reviews.nodes) ELSE <<>>
                 reviews_found == Len(nodes)
                 reviewed == CountReviewers(checked[2], Reviewers(nodes), author)
                 rechecked == IF reviews_found # reviews.total_count
                              THEN Bail(reviewed) ELSE Ok(reviewed)
             IN  IF rechecked[1] # "Ok" THEN rechecked
                 ELSE Ok(CountResolved(CountAuthored(rechecked[2], author), pr))

\* The loop over the edges of one response, until an edge fails.
RECURSIVE CountSearchEdges(_, _)
CountSearchEdges(counts, edges) ==
    IF edges = <<>> THEN Ok(counts)
    ELSE LET edge == Head(edges)
         IN  IF /\ IsSome(edge)
                /\ IsSome(Unwrap(edge).node)
                /\ Unwrap(Unwrap(edge).node).typename = "PullRequest"
             THEN LET counted ==
                        CountPullRequest(counts, Unwrap(Unwrap(edge).node).pr)
                  IN  IF counted[1] = "Ok"
                      THEN CountSearchEdges(counted[2], Tail(edges))
                      ELSE counted
             ELSE CountSearchEdges(counts, Tail(edges))

\* The order is by participated_in alone, ascending.
KeyLessAscending(a, b) == a.participated_in < b.participated_in

\* The order is by participated_in alone.
KeyLessWithoutLogin(a, b) == a.participated_in > b.participated_in

\* The order of the keys (u64::MAX - participated_in, login): the first
\* component is smaller for the larger participated_in.
KeyLess(a, b) ==
    \/ a.participated_in > b.participated_in
    \/ /\ a.participated_in = b.participated_in
       /\ LoginLess(a.login, b.login)

\* Insert x behind the entries that are not after it.
RECURSIVE InsertByKey(_, _)
InsertByKey(sorted, x) ==
    IF sorted = <<>> THEN <<x>>
    ELSE IF KeyLess(x, Head(sorted)) THEN <<x>> \o sorted
    ELSE <<Head(sorted)>> \o InsertByKey(Tail(sorted), x)

\* sort_by_key: a stable sort.
RECURSIVE sort_by_key(_)
sort_by_key(v) ==
    IF v = <<>> THEN <<>>
    ELSE InsertByKey(sort_by_key(SubSeq(v, 1, Len(v) - 1)), v[Len(v)])

\* counts.into_iter().collect(): the entries in the orders a HashMap can
\* yield them.
Collected(counts) ==
    LET logins == DOMAIN counts
        n == Cardinality(logins)
        orders == {f \in [1 .. n -> logins] : \A l \in logins : \E k \in 1 .. n : f[k] = l}
    IN  {[k \in 1 .. n |->
            [login |-> f[k],
             participated_in |-> counts[f[k]].participated_in,
             authored |-> counts[f[k]].authored,
             reviewed |-> counts[f[k]].reviewed,
             resolved |-> counts[f[k]].resolved]] : f \in orders}

\* What pr_participants can return with the counts of the whole loop.
Sorted(counts) == {sort_by_key(v) : v \in Collected(counts)}

\* HashMap::new().
NoCounts == [l \in {} |-> DefaultCounts]

\* The ways the server can cut a list of search edges into pages.
RECURSIVE Chunks(_)
Chunks(edges) ==
    IF edges = <<>> THEN {<<>>}
    ELSE UNION {{<<SubSeq(edges, 1, k)>> \o rest :
                    rest \in Chunks(SubSeq(edges, k + 1, Len(edges)))} :
                k \in 1 .. Len(edges)}

\* The pages of the search for one cut: every page but the last has a next
\* page and gives the cursor to it; a search without result is one page
\* without edges.
SearchPages(chunks) ==
    IF chunks = <<>>
    THEN <<[edges |-> None, has_next_page |-> FALSE, end_cursor |-> None]>>
    ELSE [k \in 1 .. Len(chunks) |->
            [edges |-> Some(chunks[k]),
             has_next_page |-> k < Len(chunks),
             end_cursor |-> Some(k)]]

\* The loop of pr_participants from page k on, every request answered with
\* its page.
RECURSIVE CountPages(_, _, _)
CountPages(counts, search, k) ==
    LET page == search[k]
        counted == CountSearchEdges(
                     counts, IF IsSome(page.edges) THEN Unwrap(page.edges) ELSE <<>>)
    IN  IF counted[1] # "Ok" THEN counted
        ELSE IF page.has_next_page
        THEN CountPages(counted[2], search, PageAfter(page.end_cursor))
        ELSE counted

\* What pr_participants can return for a search whose requests all succeed.
pr_participants(search) ==
    LET counted == CountPages(NoCounts, search, PageAfter(None))
    IN  IF counted[1] = "Ok"
        THEN {Ok(v) : v \in Sorted(counted[2])}
        ELSE {counted}

(***************************************************************************)
(* is_high_contributor.                                                    *)
(***************************************************************************)
\* Rounded to the nearest percent.
percentage_rounded(x, d) == IF d = 0 THEN 0 ELSE (x * 100 + d \div 2) \div d

\* util::percentage: x as a percentage of d, rounded down; 0 for d = 0.
percentage(x, d) == IF d = 0 THEN 0 ELSE (x * 100) \div d

\* RepoParticipant::reviewed_or_resolved: self.reviewed.max(self.resolved)
reviewed_or_resolved(participant) ==
    IF participant.reviewed >= participant.resolved
    THEN participant.reviewed ELSE participant.resolved

\* bool as u64
AsU64(b) == IF b THEN 1 ELSE 0

\* The reviewer must pass both thresholds, like the author.
is_high_contributor_strict(hc, num_prs, participant) ==
    LET participated_in_percentage == percentage(participant.participated_in, num_prs)
        authored_percentage == percentage(participant.authored, num_prs)
        reviewed_or_resolved_percentage ==
            percentage(reviewed_or_resolved(participant), num_prs)
        high_reviewer ==
            /\ reviewed_or_resolved_percentage > hc.high_reviewer_min_percentage
            /\ reviewed_or_resolved(participant) > hc.high_reviewer_min_prs
        high_activity ==
            /\ participated_in_percentage > hc.high_participant_min_percentage
            /\ participant.participated_in > hc.high_participant_min_prs
        high_author ==
            /\ authored_percentage > hc.high_author_min_percentage
            /\ participant.authored > hc.high_author_min_prs
        high_total == AsU64(high_reviewer) + AsU64(high_activity) + AsU64(high_author)
    IN  high_total >= hc.high_contributor_categories_threshold

\* More categories than the threshold are required.
is_high_contributor_above(hc, num_prs, participant) ==
    LET participated_in_percentage == percentage(participant.participated_in, num_prs)
        authored_percentage == percentage(participant.authored, num_prs)
        reviewed_or_resolved_percentage ==
            percentage(reviewed_or_resolved(participant), num_prs)
        high_reviewer ==
            \/ reviewed_or_resolved_percentage > hc.high_reviewer_min_percentage
            \/ reviewed_or_resolved(participant) > hc.high_reviewer_min_prs
        high_activity ==
            /\ participated_in_percentage > hc.high_participant_min_percentage
            /\ participant.participated_in > hc.high_participant_min_prs
        high_author ==
            /\ authored_percentage > hc.high_author_min_percentage
            /\ participant.authored > hc.high_author_min_prs
        high_total == AsU64(high_reviewer) + AsU64(high_activity) + AsU64(high_author)
    IN  high_total > hc.high_contributor_categories_threshold

is_high_contributor(hc, num_prs, participant) ==
    LET participated_in_percentage == percentage(participant.participated_in, num_prs)
        authored_percentage == percentage(participant.authored, num_prs)
        reviewed_or_resolved_percentage ==
            percentage(reviewed_or_resolved(participant), num_prs)
        high_reviewer ==
            \/ reviewed_or_resolved_percentage > hc.high_reviewer_min_percentage
            \/ reviewed_or_resolved(participant) > hc.high_reviewer_min_prs
        high_activity ==
            /\ participated_in_percentage > hc.high_participant_min_percentage
            /\ participant.participated_in > hc.high_participant_min_prs
        high_author ==
            /\ authored_percentage > hc.high_author_min_percentage
            /\ participant.authored > hc.high_author_min_prs
        high_total == AsU64(high_reviewer) + AsU64(high_activity) + AsU64(high_author)
    IN  high_total >= hc.high_contributor_categories_threshold

\* The configurations, repositories and participants it is applied to.
MinPercentages == {0, 50}
MinPrs == {3}
PrsCounted == {0, 3, 5, 6}
PrsOpened == {0, 10}

HighContributorConfigs ==
    [high_reviewer_min_percentage : MinPercentages,
     high_reviewer_min_prs : MinPrs \cup {6},
     high_participant_min_percentage : MinPercentages,
     high_participant_min_prs : MinPrs,
     high_author_min_percentage : MinPercentages,
     high_author_min_prs : MinPrs,
     high_contributor_categories_threshold : 0 .. MaxCategories]

RepoParticipantRecords ==
    [participated_in : PrsCounted, authored : PrsCounted,
     reviewed : PrsCounted, resolved : {0, 5}]

(***************************************************************************)
(* The participants of the report: parse_participants, top_participant,    *)
(* saturation and high_contributor_row.                                    *)
(***************************************************************************)
ROBOTS ==
    {"rust-highfive", "bors", "rustbot", "rust-log-analyzer", "rust-timer", "rfcbot"}

\* Every login passes.
is_robot_never(login) == FALSE

is_robot(login) == login \in ROBOTS

\* The records of repo-participants.csv that are pushed.
parse_participants(records) ==
    SelectSeq(records, LAMBDA record : ~is_robot(record.participant))

\* The rows of every repository are taken.
in_any_repo(participants, repo_info) == participants

in_repo(participants, repo_info) ==
    SelectSeq(participants, LAMBDA p : p.repo = repo_info.repo)

\* The key closures that high_contributor_row passes.
Keys == {"authored", "participated_in", "reviewed_or_resolved"}

Key(key, p) ==
    CASE key = "authored" -> p.authored
      [] key = "participated_in" -> p.participated_in
      [] key = "reviewed_or_resolved" -> reviewed_or_resolved(p)

\* The first element, whatever its key.
max_by_key_first(v, key) == IF v = <<>> THEN None ELSE Some(v[1])

\* Iterator::max_by_key: the last element with the maximum key.
RECURSIVE max_by_key(_, _)
max_by_key(v, key) ==
    IF v = <<>> THEN None
    ELSE LET rest == max_by_key(SubSeq(v, 1, Len(v) - 1), key)
             last == v[Len(v)]
         IN  IF IsSome(rest) /\ Key(key, Unwrap(rest)) > Key(key, last)
             THEN rest ELSE Some(last)

top_participant(participants, repo_info, key) ==
    LET top == max_by_key(in_repo(participants, repo_info), key)
    IN  IF IsSome(top)
        THEN <<Str(Unwrap(top).participant),
               percentage(Key(key, Unwrap(top)), repo_info.num_prs)>>
        ELSE <<Str("N/A"), 0>>

\* Ord of (u64, &String).
PairLess(a, b) == a[1] < b[1] \/ (a[1] = b[1] /\ LoginLess(a[2], b[2]))

RECURSIVE InsertPair(_, _)
InsertPair(sorted, x) ==
    IF sorted = <<>> THEN <<x>>
    ELSE IF PairLess(x, Head(sorted)) THEN <<x>> \o sorted
    ELSE <<Head(sorted)>> \o InsertPair(Tail(sorted), x)

RECURSIVE sort(_)
sort(v) ==
    IF v = <<>> THEN <<>>
    ELSE InsertPair(sort(SubSeq(v, 1, Len(v) - 1)), v[Len(v)])

reverse(v) == [k \in 1 .. Len(v) |-> v[Len(v) + 1 - k]]

\* [String]::join
RECURSIVE join(_, _)
join(strings, sep) ==
    IF strings = <<>> THEN <<>>
    ELSE IF Len(strings) = 1 THEN strings[1]
    ELSE strings[1] \o <<sep>> \o join(Tail(strings), sep)

\* format!("{} ({}%)", participant, percent)
NameWithPercent(login, percent) ==
    Str(login) \o <<" (">> \o to_string(percent) \o <<"%)">>

\* The loop stops once the total has reached the target.
RECURSIVE SaturationLoopAtTarget(_, _, _, _, _)
SaturationLoopAtTarget(participants, running_total, target, prs, output) ==
    IF participants = <<>> THEN output
    ELSE LET count == Head(participants)[1]
             total == running_total + count
             out == Append(output,
                        NameWithPercent(Head(participants)[2], percentage(count, prs)))
         IN  IF total >= target THEN out
             ELSE SaturationLoopAtTarget(Tail(participants), total, target, prs, out)

\* The loop of saturation over the sorted participants.
RECURSIVE SaturationLoop(_, _, _, _, _)
SaturationLoop(participants, running_total, target, prs, output) ==
    IF participants = <<>> THEN output
    ELSE LET count == Head(participants)[1]
             total == running_total + count
             out == Append(output,
                        NameWithPercent(Head(participants)[2], percentage(count, prs)))
         IN  IF total > target THEN out
             ELSE SaturationLoop(Tail(participants), total, target, prs, out)

saturation(participants, saturation_threshold_percentage, repo_info, key) ==
    LET inRepo == in_repo(participants, repo_info)
        pairs == [k \in 1 .. Len(inRepo) |-> <<Key(key, inRepo[k]), inRepo[k].participant>>]
        target == (repo_info.num_prs * saturation_threshold_percentage) \div 100
        output == SaturationLoop(reverse(sort(pairs)), 0, target, repo_info.num_prs, <<>>)
    IN  <<join(output, ", "), Len(output)>>

\* filter(...).count()
CountWhere(v, key) == Len(SelectSeq(v, LAMBDA p : Key(key, p) > 0))

high_contributor_row(config, participants, repo_info) ==
    LET inRepo == in_repo(participants, repo_info)
        top_author == top_participant(participants, repo_info, "authored")
        top_reviewer == top_participant(participants, repo_info, "reviewed_or_resolved")
        saturation_reviewers ==
            saturation(participants, config.reviewer_saturation_threshold,
                       repo_info, "reviewed_or_resolved")
        saturation_authors ==
            saturation(participants, config.author_saturation_threshold,
                       repo_info, "authored")
        top == top_participant(participants, repo_info, "participated_in")
        high_contributors ==
            SelectSeq(inRepo,
                      LAMBDA p : is_high_contributor(config, repo_info.num_prs, p))
    IN  [repo |-> repo_info.repo,
         number_of_prs |-> repo_info.num_prs,
         total_participants |-> CountWhere(inRepo, "participated_in"),
         total_authors |-> CountWhere(inRepo, "authored"),
         total_reviewers |-> CountWhere(inRepo, "reviewed_or_resolved"),
         top_author |-> top_author[1],
         top_author_percentage |-> top_author[2],
         top_reviewer |-> top_reviewer[1],
         top_reviewer_percentage |-> top_reviewer[2],
         top_participant |-> top[1],
         top_participant_percentage |-> top[2],
         saturation_authors |-> saturation_authors[2],
         saturation_author_names |-> saturation_authors[1],
         saturation_reviewers |-> saturation_reviewers[2],
         saturation_reviewer_names |-> saturation_reviewers[1],
         high_contributors |-> Len(high_contributors),
         high_contributor_names |->
             join([k \in 1 .. Len(high_contributors) |->
                      Str(high_contributors[k].participant)], ",")]

\* The records of repo-participants.csv, the repositories and the
\* configurations these are applied to.
CsvLogins == {"alice", "bob", "carol", "bors"}

CsvCounts ==
    {[participated_in |-> 5, authored |-> 6, reviewed |-> 2, resolved |-> 0],
     [participated_in |-> 3, authored |-> 3, reviewed |-> 0, resolved |-> 5],
     [participated_in |-> 2, authored |-> 0, reviewed |-> 5, resolved |-> 3],
     [participated_in |-> 0, authored |-> 0, reviewed |-> 0, resolved |-> 0]}

CsvRecord(login, repo, c) ==
    [participant |-> login, repo |-> repo,
     participated_in |-> c.participated_in, authored |-> c.authored,
     reviewed |-> c.reviewed, resolved |-> c.resolved]

\* The counts a login comes with, named by their participated_in.
CsvCountsOf(login) ==
    LET n == CASE login = "bob" -> {3, 5}
               [] login = "carol" -> {2, 3, 0}
               [] OTHER -> {5, 0}
    IN  {c \in CsvCounts : c.participated_in \in n}

CsvRecords ==
    {CsvRecord(l[1], RepoName(1), l[2]) :
        l \in UNION {{<<login, c>> : c \in CsvCountsOf(login)} : login \in CsvLogins}}
        \cup {CsvRecord(l, RepoName(2), c) :
                 l \in {"alice", "carol"},
                 c \in {d \in CsvCounts : d.participated_in = 5}}

RepoInfos == [repo : {RepoName(1)}, num_prs : PrsOpened]

SaturationThresholds == {50, 100}

ReportConfigs ==
    [high_reviewer_min_percentage : {50},
     high_reviewer_min_prs : {3},
     reviewer_saturation_threshold : {50},
     author_saturation_threshold : SaturationThresholds,
     high_participant_min_percentage : {50},
     high_participant_min_prs : {3},
     high_author_min_percentage : {50},
     high_author_min_prs : {3},
     high_contributor_categories_threshold : {1}]

(***************************************************************************)
(* Report::run: the stages of a report, one after the other.               *)
(***************************************************************************)
\* The pipelines that produce the inputs, in the order run awaits them.
Inputs == <<"top_crates", "repo_participants", "repo_infos">>

\* The functions that write the outputs, in the order run calls them.
Outputs == <<"write_top_crates", "write_high_contributors", "write_issue_closures">>

Stages == <<"load_config">> \o Inputs \o Outputs

InputStages == {Inputs[k] : k \in 1 .. Len(Inputs)}
OutputStages == {Outputs[k] : k \in 1 .. Len(Outputs)}

\* The file a stage creates.
FileOf(stage) ==
    CASE stage = "top_crates" -> "inputs/top-crates.csv"
      [] stage = "repo_participants" -> "inputs/repo-participants.csv"
      [] stage = "repo_infos" -> "inputs/repo-infos.csv"
      [] stage = "write_top_crates" -> "output/top-crates.csv"
      [] stage = "write_high_contributors" -> "output/high-contributors.csv"
      [] stage = "write_issue_closures" -> "output/issue-closures.csv"

\* The rows the producer of a pipeline sends.
RowOf(p, k) == <<p, k>>

\* A pipeline before run_producer is called for it.
NotStarted ==
    [producer |-> "none", consumer |-> "none", tx |-> FALSE, rx |-> FALSE,
     channel |-> <<>>, sent |-> <<>>, received |-> <<>>]

\* Every consumer reads the channel of the first pipeline.
InboundOfFirst(p) == Inputs[1]

\* produce_input hands consume the receiver that run_producer returned for
\* this producer.
Inbound(p) == p

\* The consumer returns what the producer returned.
OnEndOfStreamPropagates(producer) == IF producer = "failed" THEN "failed" ELSE "ok"

\* Print::consume at the end of the stream: it flushes and returns, whatever
\* the producer returned.
OnEndOfStream(producer) == "ok"

\* The error of a stage is dropped and run goes on with the next stage.
TryIgnoringError(name) == None

\* `?` on the Err of a stage: run returns it.
Try(name) == Err(name)

\* The files are removed.
OnStageErrorRollsBack(created) == <<>>

\* A failed stage: the error is returned with the files left as they are.
OnStageError(created) == created

(***************************************************************************)
(* get_column_notation.                                                    *)
(***************************************************************************)
ASCII_UPPER ==
    <<"A", "B", "C", "D", "E", "F", "G", "H", "I", "J", "K", "L", "M",
      "N", "O", "P", "Q", "R", "S", "T", "U", "V", "W", "X", "Y", "Z">>

\* format! of the letters at the indices; an index of 26 or more panics.
Letters(indices) ==
    IF \E k \in 1 .. Len(indices) : indices[k] >= Len(ASCII_UPPER)
    THEN Panic("index out of bounds")
    ELSE Ok([k \in 1 .. Len(indices) |-> ASCII_UPPER[indices[k] + 1]])

get_column_notation(c) ==
    IF c < 26 THEN Letters(<<c>>)
    ELSE IF c < 702 THEN Letters(<<c \div 26 - 1, c % 26>>)
    ELSE IF c <= MaxColumn
    THEN LET first == IF (c \div 26) \div 26 >= 26
                      THEN 26 - (((c \div 26) \div 26) % 26)
                      ELSE (c \div 26) \div 26 - 1
         IN  Letters(<<first, (c \div 26 - 1) % 26, c % 26>>)
    ELSE Panic("Number not supported. A number higher than 18277 will go beyond Column ZZZ.")

(***************************************************************************)
(* Graphql: the execute calls of one value, exported to or replayed from   *)
(* numbered files.                                                         *)
(***************************************************************************)
\* The queries executed and what the server can answer to one.
Queries == {"IssueSearch", "PrsAndParticipants"}

Answers == {"a", "b"}

Response(query, answer) == [query |-> query, data |-> answer]

\* The Graphql values: exporting, replaying, neither, and both prefixes set.
GraphqlConfigs ==
    {[export_prefix |-> Some("graphql/export"), import_prefix |-> None],
     [export_prefix |-> None, import_prefix |-> Some("graphql/import")],
     [export_prefix |-> None, import_prefix |-> None],
     [export_prefix |-> Some("graphql/export"), import_prefix |-> Some("graphql/import")]}

\* The counter is read and left as it is.
load(counter) == [count |-> counter, counter |-> counter]

\* AtomicUsize::fetch_add(1, SeqCst): the value before, and the counter after.
fetch_add(counter) == [count |-> counter, counter |-> counter + 1]

\* format!("{}.{}.json", prefix, count)
PathOf(prefix, count) == <<prefix, ".">> \o to_string(count) \o <<".json">>

\* tokio::fs::write: the file is created or replaced.
WriteFile(files, path, content) ==
    {f \in files : f.path # path} \cup {[path |-> path, content |-> content]}

\* tokio::fs::read and serde_json::from_slice.
ReadFile(files, path) ==
    IF \E f \in files : f.path = path
    THEN Ok((CHOOSE f \in files : f.path = path).content)
    ELSE Err("read")

(***************************************************************************)
(* accumulate_pages: the loop over the numbered pages of a list.           *)
(***************************************************************************)
\* The items of a page of the list: none, one or two.
ListedItems(n, len) == [j \in 1 .. len |-> NodeName(n, j)]

\* The lists the server can hold: up to MaxPages pages, empty ones among
\* them.
Listings ==
    UNION {{[n \in 1 .. k |-> ListedItems(n, f[n])] : f \in [1 .. k -> 0 .. 2]} :
           k \in 0 .. MaxPages}

\* data(page): the page with that number; beyond the last one an empty page.
PageOf(pgs, n) == IF n <= Len(pgs) THEN pgs[n] ELSE <<>>

\* The loop also ends at a page that is not full.
IsShortPage(items_len) == items_len < 2

\* if items_len == 0 { break; }
IsLastPage(items_len) == items_len = 0

(***************************************************************************)
(* What one turn of a producer's loop fetches for a repository.            *)
(***************************************************************************)
\* The searches the pipeline is run over: one per list of search edges,
\* cut into pages of two edges.
SampleSearches ==
    LET PullRequestEdge(p) ==
            Some([node |-> Some([typename |-> "PullRequest", pr |-> p])])
        merged == CHOOSE p \in PullRequests :
                    ~IsSome(p.author) /\ IsSome(p.merged_by)
        alices == CHOOSE p \in PullRequests :
                    /\ IsSome(p.reviews)
                    /\ Unwrap(p.reviews).total_count = 2
                    /\ p.participants.total_count = 2
        bobs == CHOOSE p \in PullRequests : p.participants.total_count = 3
        bots == CHOOSE p \in PullRequests :
                   IsSome(p.author) /\ Unwrap(p.author).on # "User"
        partial == CHOOSE p \in PullRequests :
                     /\ p.participants.total_count = 2
                     /\ Len(Unwrap(p.participants.edges)) = 1
        lists == {<<>>,
                  <<PullRequestEdge(merged)>>,
                  <<PullRequestEdge(bobs), None, PullRequestEdge(alices),
                    PullRequestEdge(bots)>>,
                  <<PullRequestEdge(alices), PullRequestEdge(partial)>>}
        Pages(edges) ==
            IF Len(edges) <= 2 THEN SearchPages(IF edges = <<>> THEN <<>> ELSE <<edges>>)
            ELSE SearchPages(<<SubSeq(edges, 1, 2), SubSeq(edges, 3, Len(edges))>>)
    IN  {Pages(edges) : edges \in lists}

\* What upstream can answer to the queries of one turn: one answer per
\* query made, a query being made only when those before it succeeded.
Upstream(kind) ==
    CASE kind = "ListReposForOrg" ->
           {<<Ok(c)>> : c \in Counts} \cup {<<Err("request")>>}
      [] kind = "IssueClosures" ->
           {<<Ok(o), Ok(c)>> : o \in Counts, c \in Counts}
           \cup {<<Ok(o), Err("request")>> : o \in Counts}
           \cup {<<Err("request")>>}
      [] OTHER ->
           {<<Ok(s)>> : s \in SampleSearches} \cup {<<Err("request")>>}

\* A count that failed is sent as 0.
FetchWithDefault(kind, repo, answer) ==
    CASE kind = "ListReposForOrg" ->
           {Ok(<<ListReposRow(repo, IF answer[1][1] = "Ok" THEN answer[1][2] ELSE 0)>>)}
      [] kind = "IssueClosures" ->
           {Ok(<<IssueClosuresRow(
                   repo,
                   IF answer[1][1] = "Ok" THEN answer[1][2] ELSE 0,
                   IF Len(answer) = 2 /\ answer[2][1] = "Ok" THEN answer[2][2] ELSE 0)>>)}
      [] OTHER ->
           IF answer[1][1] = "Ok"
           THEN {IF r[1] = "Ok"
                 THEN Ok([k \in 1 .. Len(r[2]) |-> ParticipantRow(repo, r[2][k])])
                 ELSE r : r \in pr_participants(answer[1][2])}
           ELSE {answer[1]}

\* What the turn for `repo` can come to with these answers: Ok of the rows
\* to send, or the error the producer returns.
Fetch(kind, repo, answer) ==
    CASE kind = "ListReposForOrg" ->
           IF answer[1][1] = "Ok"
           THEN {Ok(<<ListReposRow(repo, answer[1][2])>>)}
           ELSE {answer[1]}
      [] kind = "IssueClosures" ->
           IF answer[1][1] # "Ok" THEN {answer[1]}
           ELSE IF answer[2][1] # "Ok" THEN {answer[2]}
           ELSE {Ok(<<IssueClosuresRow(repo, answer[1][2], answer[2][2])>>)}
      [] OTHER ->
           IF answer[1][1] = "Ok"
           THEN {IF r[1] = "Ok"
                 THEN Ok([k \in 1 .. Len(r[2]) |-> ParticipantRow(repo, r[2][k])])
                 ELSE r : r \in pr_participants(answer[1][2])}
           ELSE {answer[1]}

VARIABLES
    prodKind,       \* which Producer runs
    consKind,       \* which Consumer runs
    org_repos,      \* the repositories of the organization (upstream)
    repo_names,     \* the producer's list of repositories
    ppc,            \* where the producer task is
    repo_idx,       \* the next repository to fetch
    pending,        \* rows fetched for the current repository, not yet sent
    fetched,        \* history: what upstream answered for every repository
    prodResult,     \* what producer_task returned
    error_message,  \* what the spawned task printed
    buffer,         \* the rows buffered in the channel
    txOpen,         \* the Sender has not been dropped
    rxOpen,         \* the Receiver has not been dropped
    sent,           \* history: the rows whose send succeeded
    cpc,            \* where the consumer is
    row_index,      \* Print's row counter
    received,       \* history: the rows recv returned
    sink,           \* history: the operations on the sink, with their outcome
    consResult      \* what consume returned

pipeVars ==
    <<prodKind, consKind, org_repos, repo_names, ppc, repo_idx, pending,
      fetched, prodResult, error_message, buffer, txOpen, rxOpen, sent, cpc, row_index,
      received, sink, consResult>>

prodVars ==
    <<ppc, repo_idx, pending, fetched, prodResult, error_message, txOpen>>
consVars == <<cpc, row_index, received, sink, consResult, rxOpen>>

VARIABLES
    pages,          \* the pages of the query, as the server holds them
    apc,            \* where all_repos is
    after_cursor,   \* all_repos: the cursor of the next request
    repos,          \* all_repos: the names accumulated
    requests,       \* history: the cursor of every request made
    responses,      \* history: the page served to every request (0: failed)
    all_result      \* what all_repos returned

pageVars == <<pages, apc, after_cursor, repos, requests, responses, all_result>>

VARIABLES
    search,         \* the pages of the PrsAndParticipants search (upstream)
    gpc,            \* where pr_participants is
    pr_cursor,      \* pr_participants: after_cursor
    counts,         \* pr_participants: the HashMap of the counts
    pr_responses,   \* history: the page served to every request (0: failed,
                    \* -1: a response without data)
    pr_result       \* what pr_participants returned

aggVars == <<search, gpc, pr_cursor, counts, pr_responses, pr_result>>

VARIABLES
    hc,             \* is_high_contributor: config.high_contributor
    num_prs,        \* is_high_contributor: self.num_prs
    participant,    \* is_high_contributor: the RepoParticipant
    high            \* what is_high_contributor returned

hcVars == <<hc, num_prs, participant, high>>

VARIABLES
    csv_records,    \* the records of repo-participants.csv
    repo_info,      \* the RepoInfo of the repository of the row
    data,           \* ReportData::repo_participants, once parsed
    called          \* the function called on the data, with what it returned

dataVars == <<csv_records, repo_info, data, called>>

VARIABLES
    pct             \* a call of percentage: its arguments and what it returned

pctVars == <<pct>>

VARIABLES
    stage,          \* Report::run: the index of the stage it is at (0: no run)
    pipes,          \* the producer, channel and consumer of every input pipeline
    files,          \* history: the files created, in order
    failures,       \* history: what failed and where
    reported,       \* the producer errors that were logged
    run_result      \* what Report::run returned

runVars == <<stage, pipes, files, failures, reported, run_result>>

VARIABLES
    column,         \* get_column_notation: the zero-based column
    notation        \* what get_column_notation returned

colVars == <<column, notation>>

VARIABLES
    graphql,        \* the Graphql value: its export_prefix and import_prefix
    export_counter, \* Graphql::export_counter
    executions,     \* the execute calls on the value, in the order of their fetch_add
    disk,           \* the files of the graphql directory
    recorded        \* history: the execute calls of the run that was exported

gqlVars == <<graphql, export_counter, executions, disk, recorded>>

VARIABLES
    listing,        \* the pages of the list, as the server holds them
    page_number,    \* accumulate_pages: the loop variable `page`
    accumulated,    \* accumulate_pages: the Vec `repos`
    page_requests,  \* history: the page numbers requested, in order
    acc_result      \* what accumulate_pages returned

accVars == <<listing, page_number, accumulated, page_requests, acc_result>>

vars == <<pipeVars, pageVars, aggVars, hcVars, dataVars, pctVars, runVars, colVars, gqlVars, accVars>>

\* The variables of the other parts, which a part leaves alone.
besidesPipeline == <<pageVars, aggVars, hcVars, dataVars, pctVars, runVars, colVars, gqlVars, accVars>>
besidesAllRepos == <<pipeVars, aggVars, hcVars, dataVars, pctVars, runVars, colVars, gqlVars, accVars>>
besidesParticipants == <<pipeVars, pageVars, hcVars, dataVars, pctVars, runVars, colVars, gqlVars, accVars>>
besidesClassifier == <<pipeVars, pageVars, aggVars, dataVars, pctVars, runVars, colVars, gqlVars, accVars>>
besidesReportData == <<pipeVars, pageVars, aggVars, hcVars, pctVars, runVars, colVars, gqlVars, accVars>>
besidesPercentage == <<pipeVars, pageVars, aggVars, hcVars, dataVars, runVars, colVars, gqlVars, accVars>>
besidesReport == <<pipeVars, pageVars, aggVars, hcVars, dataVars, pctVars, colVars, gqlVars, accVars>>
besidesColumns == <<pipeVars, pageVars, aggVars, hcVars, dataVars, pctVars, runVars, gqlVars, accVars>>
besidesGraphql == <<pipeVars, pageVars, aggVars, hcVars, dataVars, pctVars, runVars, colVars, accVars>>
besidesAccumulate == <<pipeVars, pageVars, aggVars, hcVars, dataVars, pctVars, runVars, colVars, gqlVars>>

\* The pipeline does not run.
PipelineIdle ==
    /\ prodKind = "none"
    /\ consKind = "none"
    /\ org_repos = <<>>
    /\ repo_names = <<>>
    /\ ppc = "idle"
    /\ repo_idx = 1
    /\ pending = <<>>
    /\ fetched = <<>>
    /\ prodResult = "running"
    /\ error_message = "none"
    /\ buffer = <<>>
    /\ txOpen = FALSE
    /\ rxOpen = FALSE
    /\ sent = <<>>
    /\ cpc = "idle"
    /\ row_index = 1
    /\ received = <<>>
    /\ sink = <<>>
    /\ consResult = "running"

\* all_repos does not run.
AllReposIdle ==
    /\ pages = <<>>
    /\ apc = "idle"
    /\ after_cursor = None
    /\ repos = <<>>
    /\ requests = <<>>
    /\ responses = <<>>
    /\ all_result = None

\* No report data is parsed.
ReportDataIdle ==
    /\ csv_records = <<>>
    /\ repo_info = None
    /\ data = None
    /\ called = None

\* percentage is not called.
PercentageIdle ==
    pct = None

\* No report runs.
ReportIdle ==
    /\ stage = 0
    /\ pipes = <<>>
    /\ files = <<>>
    /\ failures = <<>>
    /\ reported = <<>>
    /\ run_result = None

\* get_column_notation is not called.
ColumnsIdle ==
    /\ column = 0
    /\ notation = None

\* No query is executed.
GraphqlIdle ==
    /\ graphql = [export_prefix |-> None, import_prefix |-> None]
    /\ export_counter = 0
    /\ executions = <<>>
    /\ disk = {}
    /\ recorded = <<>>

\* accumulate_pages does not run.
AccumulateIdle ==
    /\ listing = <<>>
    /\ page_number = 0
    /\ accumulated = <<>>
    /\ page_requests = <<>>
    /\ acc_result = None

\* is_high_contributor is not called.
ClassifierIdle ==
    /\ hc = None
    /\ num_prs = 0
    /\ participant = None
    /\ high = None

\* pr_participants does not run.
ParticipantsIdle ==
    /\ search = <<>>
    /\ gpc = "idle"
    /\ pr_cursor = None
    /\ counts = NoCounts
    /\ pr_responses = <<>>
    /\ pr_result = None

(***************************************************************************)
(* The state after the channel is created and the producer spawned.        *)
(***************************************************************************)
InitPipeline ==
    /\ prodKind \in ProducerKinds
    /\ consKind \in ConsumerKinds
    /\ \E n \in 0 .. MaxRepos :
         org_repos = [k \in 1 .. n |-> RepoName(k)]
    /\ prodKind = "RepoParticipantsOne" => Len(org_repos) = 1
    /\ repo_names = IF NeedsAllRepos(prodKind) THEN <<>> ELSE org_repos
    /\ ppc = "start"
    /\ repo_idx = 1
    /\ pending = <<>>
    /\ fetched = <<>>
    /\ prodResult = "running"
    /\ error_message = "none"
    /\ buffer = <<>>
    /\ txOpen = TRUE
    /\ rxOpen = TRUE
    /\ sent = <<>>
    /\ cpc = FirstStep(consKind)
    /\ row_index = 1
    /\ received = <<>>
    /\ sink = <<>>
    /\ consResult = "running"

(***************************************************************************)
(* A state of a long run of ListReposForOrg over ChannelCapacity + RunAhead *)
(* repositories: the producer has sent ChannelCapacity - 1 rows (all_repos *)
(* and that many counts succeeded, every count 0) while the consumer has   *)
(* not run yet.  From here the channel fills.                              *)
(***************************************************************************)
InitRunAhead ==
    /\ prodKind = "ListReposForOrg"
    /\ consKind \in {"Print", "ExportToSheets"}
    /\ org_repos = [k \in 1 .. ChannelCapacity + RunAhead |-> RepoName(k)]
    /\ repo_names = org_repos
    /\ ppc = "fetch"
    /\ repo_idx = ChannelCapacity
    /\ pending = <<>>
    /\ fetched = [k \in 1 .. ChannelCapacity - 1 |-> <<Ok(0)>>]
    /\ prodResult = "running"
    /\ error_message = "none"
    /\ buffer = [k \in 1 .. ChannelCapacity - 1 |-> ListReposRow(RepoName(k), 0)]
    /\ txOpen = TRUE
    /\ rxOpen = TRUE
    /\ sent = buffer
    /\ cpc = FirstStep(consKind)
    /\ row_index = 1
    /\ received = <<>>
    /\ sink = <<>>
    /\ consResult = "running"

(***************************************************************************)
(* The producer task.                                                      *)
(***************************************************************************)
\* The error is printed but the Sender outlives the task.
ProducerFailsKeepingSender(e) ==
    /\ ppc' = "done"
    /\ prodResult' = e
    /\ error_message' = e
    /\ UNCHANGED <<txOpen, repo_idx, pending>>

\* producer_task returns Err: the task prints it; its Sender is dropped.
ProducerFails(e) ==
    /\ ppc' = "done"
    /\ prodResult' = e
    /\ error_message' = e
    /\ txOpen' = FALSE
    /\ UNCHANGED <<repo_idx, pending>>

\* Go on with the loops over the repositories and over the rows of one.
ProducerContinues(names, idx, rows) ==
    /\ repo_idx' = idx
    /\ pending' = rows
    /\ IF rows # <<>>
       THEN ppc' = "send" /\ UNCHANGED <<prodResult, txOpen>>
       ELSE IF idx <= Len(names)
       THEN ppc' = "fetch" /\ UNCHANGED <<prodResult, txOpen>>
       ELSE ppc' = "done" /\ prodResult' = "ok" /\ txOpen' = FALSE
    /\ UNCHANGED error_message

ProducerStart ==
    /\ ppc = "start"
    /\ \/ /\ NeedsAllRepos(prodKind)
          /\ repo_names' = org_repos
          /\ ProducerContinues(org_repos, 1, <<>>)
       \/ /\ NeedsAllRepos(prodKind)
          /\ ProducerFails(OnFetchError)
          /\ UNCHANGED repo_names
       \/ /\ ~NeedsAllRepos(prodKind)
          /\ ProducerContinues(repo_names, 1, <<>>)
          /\ UNCHANGED repo_names
    /\ UNCHANGED <<prodKind, consKind, org_repos, buffer, sent, fetched>>
    /\ UNCHANGED consVars
    /\ UNCHANGED besidesPipeline

\* A failed fetch also throws away what the channel still holds.
ProducerFetchRetracting ==
    /\ ppc = "fetch"
    /\ \E answer \in Upstream(prodKind) :
          /\ fetched' = Append(fetched, answer)
          /\ \E r \in Fetch(prodKind, repo_names[repo_idx], answer) :
                IF r[1] = "Ok"
                THEN /\ ProducerContinues(repo_names, repo_idx + 1, r[2])
                     /\ UNCHANGED buffer
                ELSE /\ ProducerFails(OnFetchError)
                     /\ buffer' = <<>>
    /\ UNCHANGED <<prodKind, consKind, org_repos, repo_names, sent>>
    /\ UNCHANGED consVars
    /\ UNCHANGED besidesPipeline

\* One turn of the loop over the repositories, up to its first send: the
\* queries for the repository, then the rows to send or the error returned.
ProducerFetch ==
    /\ ppc = "fetch"
    /\ \E answer \in Upstream(prodKind) :
          /\ fetched' = Append(fetched, answer)
          /\ \E r \in Fetch(prodKind, repo_names[repo_idx], answer) :
                IF r[1] = "Ok"
                THEN ProducerContinues(repo_names, repo_idx + 1, r[2])
                ELSE ProducerFails(OnFetchError)
    /\ UNCHANGED <<prodKind, consKind, org_repos, repo_names, buffer, sent>>
    /\ UNCHANGED consVars
    /\ UNCHANGED besidesPipeline

ProducerSend ==
    /\ ppc = "send"
    /\ \/ /\ rxOpen
          /\ HasCapacity(buffer)
          /\ buffer' = Append(buffer, Head(pending))
          /\ sent' = Append(sent, Head(pending))
          /\ ProducerContinues(repo_names, repo_idx, Tail(pending))
       \/ /\ ~rxOpen
          /\ ProducerFails(OnSendError)
          /\ UNCHANGED <<buffer, sent>>
    /\ UNCHANGED <<prodKind, consKind, org_repos, repo_names, fetched>>
    /\ UNCHANGED consVars
    /\ UNCHANGED besidesPipeline

(***************************************************************************)
(* The consumer.                                                           *)
(***************************************************************************)
\* The caller of consume holds on to the Receiver after consume returned.
ReceiverOutlivesCaller == TRUE

\* Is the Receiver alive once the caller of consume has returned?  It is a
\* local of the caller, dropped with it.
ReceiverAfterReturn == FALSE

\* consume returns and its caller drops the Receiver, and with it the rows
\* the channel still holds.
ConsumerReturns(result) ==
    /\ cpc' = "done"
    /\ consResult' = result
    /\ rxOpen' = ReceiverAfterReturn
    /\ buffer' = IF ReceiverAfterReturn THEN buffer ELSE <<>>

\* One sink operation `op`; on success, or when the consumer only prints the
\* error, the consumer goes on at `next`.
SinkStep(op, next) ==
    /\ sink' = Append(sink, op)
    /\ IF op.ok \/ ~ReturnsSinkError(consKind)
       THEN cpc' = next /\ UNCHANGED <<consResult, rxOpen, buffer>>
       ELSE ConsumerReturns("err")

ConsumerInitialize ==
    /\ cpc = "initialize"
    /\ \/ /\ sink' = Append(sink, Op("initialize", <<>>, TRUE))
          /\ cpc' = "clear"
          /\ UNCHANGED <<consResult, rxOpen, buffer>>
       \/ /\ sink' = Append(sink, Op("initialize", <<>>, FALSE))
          /\ ConsumerReturns(IF ReturnsSinkError(consKind) THEN "err" ELSE "unit")
    /\ UNCHANGED <<prodKind, consKind, org_repos, repo_names, sent>>
    /\ UNCHANGED <<row_index, received>>
    /\ UNCHANGED prodVars
    /\ UNCHANGED besidesPipeline

ConsumerClear ==
    /\ cpc = "clear"
    /\ \E ok \in BOOLEAN : SinkStep(Op("clear", <<>>, ok), "header")
    /\ UNCHANGED <<prodKind, consKind, org_repos, repo_names, sent>>
    /\ UNCHANGED <<row_index, received>>
    /\ UNCHANGED prodVars
    /\ UNCHANGED besidesPipeline

ConsumerHeader ==
    /\ cpc = "header"
    /\ \E ok \in BOOLEAN :
         SinkStep(Op("write",
                     IF consKind = "Print"
                     THEN HeaderRecord(ColumnNames(prodKind))
                     ELSE ColumnNames(prodKind), ok), "recv")
    /\ UNCHANGED <<prodKind, consKind, org_repos, repo_names, sent>>
    /\ UNCHANGED <<row_index, received>>
    /\ UNCHANGED prodVars
    /\ UNCHANGED besidesPipeline

ConsumerRow ==
    /\ cpc = "recv"
    /\ buffer # <<>>
    /\ received' = Append(received, Head(buffer))
    /\ \E ok \in BOOLEAN :
         /\ sink' = Append(sink,
                Op("write",
                   IF consKind = "Print"
                   THEN DataRecord(row_index, Head(buffer))
                   ELSE Head(buffer), ok))
         /\ IF ok \/ ~ReturnsSinkError(consKind)
            THEN /\ buffer' = Tail(buffer)
                 /\ row_index' = IF consKind = "Print"
                                 THEN NextRowIndex(row_index) ELSE row_index
                 /\ UNCHANGED <<cpc, consResult, rxOpen>>
            ELSE /\ ConsumerReturns("err")
                 /\ UNCHANGED row_index
    /\ UNCHANGED <<prodKind, consKind, org_repos, repo_names, sent>>
    /\ UNCHANGED prodVars
    /\ UNCHANGED besidesPipeline

ConsumerEnd ==
    /\ cpc = "recv"
    /\ EndOfStream(buffer, txOpen)
    /\ IF consKind = "Print"
       THEN /\ cpc' = "flush"
            /\ UNCHANGED <<sink, consResult, rxOpen, buffer>>
       ELSE /\ sink' = Append(sink, Op("link", <<>>, TRUE))
            /\ ConsumerReturns(IF ReturnsSinkError(consKind) THEN "ok" ELSE "unit")
    /\ UNCHANGED <<prodKind, consKind, org_repos, repo_names, sent>>
    /\ UNCHANGED <<row_index, received>>
    /\ UNCHANGED prodVars
    /\ UNCHANGED besidesPipeline

ConsumerFlush ==
    /\ cpc = "flush"
    /\ \E ok \in BOOLEAN :
         /\ sink' = Append(sink, Op("flush", <<>>, ok))
         /\ ConsumerReturns(IF ok THEN "ok" ELSE "err")
    /\ UNCHANGED <<prodKind, consKind, org_repos, repo_names, sent>>
    /\ UNCHANGED <<row_index, received>>
    /\ UNCHANGED prodVars
    /\ UNCHANGED besidesPipeline

(***************************************************************************)
(* all_repos.                                                              *)
(***************************************************************************)
InitAllRepos ==
    /\ \E n \in 1 .. MaxPages :
         \E shapes \in [1 .. n -> PageShapes] :
            pages = [k \in 1 .. n |-> Page(k, n, shapes[k])]
    /\ apc = "request"
    /\ after_cursor = None
    /\ repos = <<>>
    /\ requests = <<>>
    /\ responses = <<>>
    /\ all_result = None

AllReposReturns(result) ==
    /\ apc' = "done"
    /\ all_result' = result

\* One turn of the loop: the request, and what is done with its response.
AllReposRequest ==
    /\ apc = "request"
    /\ Len(requests) < MaxRequests
    /\ requests' = Append(requests, after_cursor)
    /\ \/ /\ responses' = Append(responses, 0)
          /\ AllReposReturns(OnRequestError(repos))
          /\ UNCHANGED <<after_cursor, repos>>
       \/ LET k == PageAfter(after_cursor)
              page == pages[k]
          IN  /\ responses' = Append(responses, k)
              /\ CASE page.kind = "no_data" ->
                       /\ AllReposReturns(Panic("missing response data"))
                       /\ UNCHANGED <<after_cursor, repos>>
                    [] page.kind = "no_org" ->
                       /\ AllReposReturns(OnNoOrganization(repos))
                       /\ UNCHANGED <<after_cursor, repos>>
                    [] OTHER ->
                       /\ repos' = IF IsSome(page.edges)
                                   THEN PushNames(repos, Unwrap(page.edges))
                                   ELSE repos
                       /\ IF page.has_next_page
                          THEN /\ after_cursor' = NextCursor(page)
                               /\ UNCHANGED <<apc, all_result>>
                          ELSE /\ AllReposReturns(Ok(repos'))
                               /\ UNCHANGED after_cursor
    /\ UNCHANGED pages
    /\ UNCHANGED besidesAllRepos

(***************************************************************************)
(* pr_participants.                                                        *)
(***************************************************************************)
InitParticipants ==
    /\ \E n \in 0 .. MaxEdges :
         \E edges \in [1 .. n -> SearchEdges] :
            \E chunks \in Chunks(edges) :
               search = SearchPages(chunks)
    /\ gpc = "request"
    /\ pr_cursor = None
    /\ counts = NoCounts
    /\ pr_responses = <<>>
    /\ pr_result = None

ParticipantsReturns(result) ==
    /\ gpc' = "done"
    /\ pr_result' = result

\* One turn of the loop: the request, and what is done with its response;
\* after the last page, the counts are collected and sorted.
ParticipantsRequest ==
    /\ gpc = "request"
    /\ \/ /\ pr_responses' = Append(pr_responses, 0)
          /\ ParticipantsReturns(Err("request"))
          /\ UNCHANGED <<pr_cursor, counts>>
       \/ /\ pr_responses' = Append(pr_responses, -1)
          /\ ParticipantsReturns(Panic("missing response data"))
          /\ UNCHANGED <<pr_cursor, counts>>
       \/ LET k == PageAfter(pr_cursor)
              page == search[k]
              counted == CountSearchEdges(
                           counts,
                           IF IsSome(page.edges) THEN Unwrap(page.edges) ELSE <<>>)
          IN  /\ pr_responses' = Append(pr_responses, k)
              /\ IF counted[1] # "Ok"
                 THEN /\ ParticipantsReturns(counted)
                      /\ UNCHANGED <<pr_cursor, counts>>
                 ELSE /\ counts' = counted[2]
                      /\ IF page.has_next_page
                         THEN /\ pr_cursor' = page.end_cursor
                              /\ UNCHANGED <<gpc, pr_result>>
                         ELSE /\ \E v \in Sorted(counted[2]) :
                                    ParticipantsReturns(Ok(v))
                              /\ UNCHANGED pr_cursor
    /\ UNCHANGED search
    /\ UNCHANGED besidesParticipants

(***************************************************************************)
(* is_high_contributor, applied to one participant of one repository.      *)
(***************************************************************************)
InitClassifier ==
    /\ hc \in HighContributorConfigs
    /\ num_prs \in PrsOpened
    /\ participant \in RepoParticipantRecords
    /\ high = None

IsHighContributor ==
    /\ high = None
    /\ high' = Some(is_high_contributor(hc, num_prs, participant))
    /\ UNCHANGED <<hc, num_prs, participant>>
    /\ UNCHANGED besidesClassifier

(***************************************************************************)
(* The participants of the report: parsed once, then read by the rows of   *)
(* high-contributors.csv.                                                  *)
(***************************************************************************)
InitReportData ==
    /\ \E n \in 0 .. MaxRecords : csv_records \in [1 .. n -> CsvRecords]
    /\ repo_info \in RepoInfos
    /\ data = None
    /\ called = None

Call(fn, key, threshold, out) ==
    [fn |-> fn, key |-> key, threshold |-> threshold, out |-> out]

ParseParticipants ==
    /\ data = None
    /\ data' = Some(parse_participants(csv_records))
    /\ UNCHANGED <<csv_records, repo_info, called>>
    /\ UNCHANGED besidesReportData

TopParticipant ==
    /\ IsSome(data)
    /\ called = None
    /\ \E key \in Keys :
          called' = Some(Call("top_participant", key, 0,
                              top_participant(Unwrap(data), repo_info, key)))
    /\ UNCHANGED <<csv_records, repo_info, data>>
    /\ UNCHANGED besidesReportData

Saturation ==
    /\ IsSome(data)
    /\ called = None
    /\ \E key \in Keys, threshold \in SaturationThresholds :
          called' = Some(Call("saturation", key, threshold,
                              saturation(Unwrap(data), threshold, repo_info, key)))
    /\ UNCHANGED <<csv_records, repo_info, data>>
    /\ UNCHANGED besidesReportData

HighContributorRow ==
    /\ IsSome(data)
    /\ called = None
    /\ \E config \in ReportConfigs :
          called' = Some(Call("high_contributor_row", "all",
                              config.author_saturation_threshold,
                              high_contributor_row(config, Unwrap(data), repo_info)))
    /\ UNCHANGED <<csv_records, repo_info, data>>
    /\ UNCHANGED besidesReportData

(***************************************************************************)
(* percentage, applied to a count and a denominator.                       *)
(***************************************************************************)
InitPercentage == pct \in [x : 0 .. MaxCount, d : 0 .. MaxCount, out : {None}]

Percentage ==
    /\ pct.out = None
    /\ pct' = [pct EXCEPT !.out = Some(percentage(pct.x, pct.d))]
    /\ UNCHANGED besidesPercentage

(***************************************************************************)
(* Report::run.                                                            *)
(***************************************************************************)
InitReport ==
    /\ stage = 1
    /\ pipes = [p \in InputStages |-> NotStarted]
    /\ files = <<>>
    /\ failures = <<>>
    /\ reported = <<>>
    /\ run_result = None

Running(name) == stage \in 1 .. Len(Stages) /\ Stages[stage] = name /\ run_result = None

\* The `?` of run and of the functions it calls: run returns the error, at
\* the stage that failed.
StageFails(name, what) ==
    /\ run_result' = Try(name)
    /\ failures' = Append(failures, <<name, what>>)
    /\ files' = OnStageError(files)
    /\ stage' = IF Try(name) = None THEN stage + 1 ELSE stage

StageDone ==
    /\ stage' = stage + 1
    /\ run_result' = IF stage = Len(Stages) THEN Ok("()") ELSE run_result
    /\ UNCHANGED failures

\* load_config and the three create_dir_all.
LoadConfig ==
    /\ Running("load_config")
    /\ \/ StageDone /\ UNCHANGED files
       \/ StageFails("load_config", "config")
    /\ UNCHANGED <<pipes, reported>>
    /\ UNCHANGED besidesReport

\* produce_input up to consume: run_producer spawns the producer with a new
\* channel, then the file is created.
StartPipeline(p) ==
    /\ Running(p)
    /\ pipes[p].producer = "none"
    /\ \/ /\ pipes' = [pipes EXCEPT ![p].producer = "running", ![p].tx = TRUE,
                                    ![p].rx = TRUE, ![p].consumer = "running"]
          /\ files' = Append(files, FileOf(p))
          /\ UNCHANGED <<stage, run_result, failures>>
       \/ /\ pipes' = [pipes EXCEPT ![p].producer = "running", ![p].tx = TRUE,
                                    ![p].consumer = "failed"]
          /\ StageFails(p, "create")
    /\ UNCHANGED reported
    /\ UNCHANGED besidesReport

\* The spawned producer: it sends a row, or the send fails and it returns
\* the error.
PipelineSend(p) ==
    /\ pipes[p].producer = "running"
    /\ Len(pipes[p].sent) < MaxRows
    /\ LET row == RowOf(p, Len(pipes[p].sent) + 1)
       IN  IF pipes[p].rx
           THEN /\ pipes' = [pipes EXCEPT ![p].channel = Append(@, row),
                                          ![p].sent = Append(@, row)]
                /\ UNCHANGED reported
           ELSE /\ pipes' = [pipes EXCEPT ![p].producer = "failed", ![p].tx = FALSE]
                /\ reported' = Append(reported, <<p, "send">>)
    /\ UNCHANGED <<stage, files, failures, run_result>>
    /\ UNCHANGED besidesReport

\* The spawned producer returns: Ok after its last row, or the error of a
\* request; the error is logged and the sender is dropped.
PipelineReturns(p) ==
    /\ pipes[p].producer = "running"
    /\ \/ /\ Len(pipes[p].sent) = MaxRows
          /\ pipes' = [pipes EXCEPT ![p].producer = "ok", ![p].tx = FALSE]
          /\ UNCHANGED reported
       \/ /\ pipes' = [pipes EXCEPT ![p].producer = "failed", ![p].tx = FALSE]
          /\ reported' = Append(reported, <<p, "request">>)
    /\ UNCHANGED <<stage, files, failures, run_result>>
    /\ UNCHANGED besidesReport

\* Print::consume: recv returned a row and it is written, or the write fails.
PipelineReceive(p) ==
    /\ Running(p)
    /\ pipes[p].consumer = "running"
    /\ pipes[Inbound(p)].channel # <<>>
    /\ LET row == Head(pipes[Inbound(p)].channel)
           taken == [pipes EXCEPT ![Inbound(p)].channel = Tail(@)]
       IN  \/ /\ pipes' = [taken EXCEPT ![p].received = Append(@, row)]
              /\ UNCHANGED <<stage, files, failures, run_result>>
           \/ /\ pipes' = [taken EXCEPT ![p].consumer = "failed", ![p].rx = FALSE]
              /\ StageFails(p, "write")
    /\ UNCHANGED reported
    /\ UNCHANGED besidesReport

\* Print::consume: recv returned None; the flush, then the file is parsed.
PipelineEnd(p) ==
    /\ Running(p)
    /\ pipes[p].consumer = "running"
    /\ pipes[Inbound(p)].channel = <<>>
    /\ ~pipes[Inbound(p)].tx
    /\ pipes[Inbound(p)].producer # "none"
    /\ IF OnEndOfStream(pipes[p].producer) = "ok"
       THEN \/ /\ pipes' = [pipes EXCEPT ![p].consumer = "ok", ![p].rx = FALSE]
               /\ StageDone
               /\ UNCHANGED files
            \/ \E what \in {"flush", "parse"} :
                  /\ pipes' = [pipes EXCEPT ![p].consumer = "failed", ![p].rx = FALSE]
                  /\ StageFails(p, what)
       ELSE /\ pipes' = [pipes EXCEPT ![p].consumer = "failed", ![p].rx = FALSE]
            /\ run_result' = Err(p)
            /\ UNCHANGED <<stage, files, failures>>
    /\ UNCHANGED reported
    /\ UNCHANGED besidesReport

\* A write function of the blocking task: the file is created and written,
\* or it fails before or after the file was created.
WriteOutput(name) ==
    /\ Running(name)
    /\ \/ /\ files' = Append(files, FileOf(name))
          /\ StageDone
       \/ StageFails(name, "create")
       \/ /\ run_result' = Err(name)
          /\ failures' = Append(failures, <<name, "write">>)
          /\ files' = OnStageError(Append(files, FileOf(name)))
          /\ UNCHANGED stage
    /\ UNCHANGED <<pipes, reported>>
    /\ UNCHANGED besidesReport

NextReport ==
    \/ LoadConfig
    \/ \E p \in InputStages :
          \/ StartPipeline(p)
          \/ PipelineSend(p)
          \/ PipelineReturns(p)
          \/ PipelineReceive(p)
          \/ PipelineEnd(p)
    \/ \E name \in OutputStages : WriteOutput(name)

(***************************************************************************)
(* get_column_notation, applied to a column.                               *)
(***************************************************************************)
InitColumn ==
    /\ column \in 0 .. MaxColumn
    /\ notation = None

GetColumnNotation ==
    /\ notation = None
    /\ notation' = get_column_notation(column)
    /\ UNCHANGED column
    /\ UNCHANGED besidesColumns

(***************************************************************************)
(* Graphql::new and GraphqlAttached::execute.                              *)
(***************************************************************************)
InitGraphql ==
    /\ graphql \in GraphqlConfigs
    /\ export_counter = 0
    /\ executions = <<>>
    /\ disk = {}
    /\ recorded = <<>>

Pending(k) == k \in 1 .. Len(executions) /\ executions[k].result = None

\* execute returns `result` to call k.
ExecuteReturns(k, result) ==
    executions' = [executions EXCEPT ![k].result = result]

\* execute up to its first await: the query is built and the counter taken.
ExecuteCount ==
    /\ Len(executions) < MaxCalls
    /\ \E query \in Queries :
          LET taken == fetch_add(export_counter)
          IN  /\ executions' =
                    Append(executions,
                           [query |-> query, count |-> taken.count,
                            result |-> None])
              /\ export_counter' = taken.counter
    /\ UNCHANGED <<graphql, disk, recorded>>
    /\ UNCHANGED besidesGraphql

\* execute with an import_prefix: the response is loaded from the file of
\* the count.
ExecuteImport ==
    /\ IsSome(graphql.import_prefix)
    /\ \E k \in 1 .. Len(executions) :
          /\ Pending(k)
          /\ ExecuteReturns(
                k, ReadFile(disk, PathOf(Unwrap(graphql.import_prefix),
                                         executions[k].count)))
    /\ UNCHANGED <<graphql, export_counter, disk, recorded>>
    /\ UNCHANGED besidesGraphql

\* execute without an import_prefix: the request is posted, and with an
\* export_prefix the response is written to the file of the count.
ExecutePost ==
    /\ ~IsSome(graphql.import_prefix)
    /\ \E k \in 1 .. Len(executions) :
          /\ Pending(k)
          /\ \/ /\ ExecuteReturns(k, Err("request"))
                /\ UNCHANGED disk
             \/ \E answer \in Answers :
                   LET response == Response(executions[k].query, answer)
                   IN  IF IsSome(graphql.export_prefix)
                       THEN \/ /\ disk' = WriteFile(
                                            disk,
                                            PathOf(Unwrap(graphql.export_prefix),
                                                   executions[k].count),
                                            response)
                               /\ ExecuteReturns(k, Ok(response))
                            \/ /\ ExecuteReturns(k, Err("write"))
                               /\ UNCHANGED disk
                       ELSE /\ ExecuteReturns(k, Ok(response))
                            /\ UNCHANGED disk
    /\ UNCHANGED <<graphql, export_counter, recorded>>
    /\ UNCHANGED besidesGraphql

\* A later run replays what this one exported: Graphql::new with the export
\* prefix as import prefix, and a counter of its own.
Replay ==
    /\ IsSome(graphql.export_prefix)
    /\ ~IsSome(graphql.import_prefix)
    /\ recorded = <<>>
    /\ executions # <<>>
    /\ \A k \in 1 .. Len(executions) : ~Pending(k)
    /\ graphql' = [export_prefix |-> None, import_prefix |-> graphql.export_prefix]
    /\ export_counter' = 0
    /\ executions' = <<>>
    /\ recorded' = executions
    /\ UNCHANGED disk
    /\ UNCHANGED besidesGraphql

(***************************************************************************)
(* accumulate_pages.                                                       *)
(***************************************************************************)
InitAccumulate ==
    /\ listing \in Listings
    /\ page_number = 1
    /\ accumulated = <<>>
    /\ page_requests = <<>>
    /\ acc_result = None

\* One turn of the loop: the request of the page, `?` on its result, the
\* items appended, and the test for the empty page.
AccumulateRequest ==
    /\ page_number >= 1
    /\ acc_result = None
    /\ page_requests' = Append(page_requests, page_number)
    /\ \/ /\ acc_result' = Err("request")
          /\ UNCHANGED <<page_number, accumulated>>
       \/ LET items == PageOf(listing, page_number)
              items_len == Len(items)
          IN  /\ accumulated' = accumulated \o items
              /\ IF IsLastPage(items_len)
                 THEN /\ acc_result' = Ok(accumulated')
                      /\ UNCHANGED page_number
                 ELSE /\ page_number' = page_number + 1
                      /\ UNCHANGED acc_result
    /\ UNCHANGED listing
    /\ UNCHANGED besidesAccumulate

NextPipeline ==
    \/ ProducerStart
    \/ ProducerFetch
    \/ ProducerSend
    \/ ConsumerInitialize
    \/ ConsumerClear
    \/ ConsumerHeader
    \/ ConsumerRow
    \/ ConsumerEnd
    \/ ConsumerFlush

Init == InitPipeline /\ AllReposIdle /\ ParticipantsIdle /\ ClassifierIdle /\ ReportDataIdle /\ PercentageIdle /\ ReportIdle /\ ColumnsIdle /\ GraphqlIdle /\ AccumulateIdle

InitLongRun == InitRunAhead /\ AllReposIdle /\ ParticipantsIdle /\ ClassifierIdle /\ ReportDataIdle /\ PercentageIdle /\ ReportIdle /\ ColumnsIdle /\ GraphqlIdle /\ AccumulateIdle

InitPaging == InitAllRepos /\ PipelineIdle /\ ParticipantsIdle /\ ClassifierIdle /\ ReportDataIdle /\ PercentageIdle /\ ReportIdle /\ ColumnsIdle /\ GraphqlIdle /\ AccumulateIdle

Next == NextPipeline

Spec == Init /\ [][Next]_vars

\* The pipeline, with weak fairness: the tokio runtime runs every task that
\* is ready.
FairSpec == Spec /\ WF_vars(Next)

\* The pipeline, with the long runs in which the channel fills.
InitWithLongRun == Init \/ InitLongRun

SpecRunAhead == InitWithLongRun /\ [][Next]_vars

\* The long runs, with weak fairness: a task woken by the drop of the
\* Receiver is run.
FairSpecRunAhead == SpecRunAhead /\ WF_vars(Next)

\* all_repos alone, over every sequence of at most MaxPages pages.
NextPaging == AllReposRequest

SpecAllRepos == InitPaging /\ [][NextPaging]_vars

\* pr_participants alone, over every search of at most MaxEdges edges.
InitAggregation == InitParticipants /\ PipelineIdle /\ AllReposIdle /\ ClassifierIdle /\ ReportDataIdle /\ PercentageIdle /\ ReportIdle /\ ColumnsIdle /\ GraphqlIdle /\ AccumulateIdle

NextAggregation == ParticipantsRequest

SpecParticipants == InitAggregation /\ [][NextAggregation]_vars

\* is_high_contributor alone.
InitClassification ==
    InitClassifier /\ PipelineIdle /\ AllReposIdle /\ ParticipantsIdle /\ ReportDataIdle /\ PercentageIdle /\ ReportIdle /\ ColumnsIdle /\ GraphqlIdle /\ AccumulateIdle

NextClassification == IsHighContributor

SpecClassifier == InitClassification /\ [][NextClassification]_vars

\* The participants of the report and the functions that read them.
InitClassifying ==
    InitReportData /\ PipelineIdle /\ AllReposIdle /\ ParticipantsIdle /\ ClassifierIdle /\ PercentageIdle /\ ReportIdle /\ ColumnsIdle /\ GraphqlIdle /\ AccumulateIdle

NextClassifying ==
    \/ ParseParticipants
    \/ TopParticipant
    \/ Saturation
    \/ HighContributorRow

SpecReportData == InitClassifying /\ [][NextClassifying]_vars

\* percentage alone.
InitPercentages ==
    /\ InitPercentage
    /\ PipelineIdle /\ AllReposIdle /\ ParticipantsIdle /\ ClassifierIdle /\ ReportIdle /\ ColumnsIdle /\ GraphqlIdle /\ AccumulateIdle
    /\ ReportDataIdle

NextPercentages == Percentage

SpecPercentage == InitPercentages /\ [][NextPercentages]_vars

\* A report run.
InitRun ==
    /\ InitReport
    /\ PipelineIdle /\ AllReposIdle /\ ParticipantsIdle /\ ClassifierIdle /\ ColumnsIdle /\ GraphqlIdle /\ AccumulateIdle
    /\ ReportDataIdle /\ PercentageIdle

SpecReport == InitRun /\ [][NextReport]_vars

\* get_column_notation alone.
InitColumns ==
    /\ InitColumn
    /\ PipelineIdle /\ AllReposIdle /\ ParticipantsIdle /\ ClassifierIdle /\ GraphqlIdle /\ AccumulateIdle
    /\ ReportDataIdle /\ PercentageIdle /\ ReportIdle

NextColumns == GetColumnNotation

SpecColumns == InitColumns /\ [][NextColumns]_vars

\* The execute calls of a Graphql value, and the replay of an export.
InitExecutions ==
    /\ InitGraphql
    /\ PipelineIdle /\ AllReposIdle /\ ParticipantsIdle /\ ClassifierIdle /\ AccumulateIdle
    /\ ReportDataIdle /\ PercentageIdle /\ ReportIdle /\ ColumnsIdle

NextExecutions ==
    \/ ExecuteCount
    \/ ExecuteImport
    \/ ExecutePost
    \/ Replay

SpecGraphql == InitExecutions /\ [][NextExecutions]_vars

\* accumulate_pages alone, over every list of at most MaxPages pages.
InitAccumulating ==
    /\ InitAccumulate
    /\ PipelineIdle /\ AllReposIdle /\ ParticipantsIdle /\ ClassifierIdle
    /\ ReportDataIdle /\ PercentageIdle /\ ReportIdle /\ ColumnsIdle /\ GraphqlIdle

NextAccumulating == AccumulateRequest

SpecAccumulate == InitAccumulating /\ [][NextAccumulating]_vars

\* The RepoParticipants producer and pr_participants, each on its own.
InitRepoParticipants == Init \/ InitAggregation

NextRepoParticipants == NextPipeline \/ ParticipantsRequest

SpecRepoParticipants == InitRepoParticipants /\ [][NextRepoParticipants]_vars

(***************************************************************************)
(* Histories read off the sink.                                            *)
(***************************************************************************)
IsWrite(o) == o.op = "write"
IsFailure(o) == ~o.ok

\* The write operations attempted, in order.
WriteOps == SelectSeq(sink, IsWrite)

\* No operation on the sink has failed.
SinkAllOk == \A k \in 1 .. Len(sink) : sink[k].ok

\* The consumer's loop has seen recv return None.
ReadToEnd == \E k \in 1 .. Len(sink) : sink[k].op \in {"flush", "link"}

\* The header the consumer writes, stated from the sink contract.
ExpectedHeader ==
    IF consKind = "Print"
    THEN <<Str("#")>> \o ColumnNames(prodKind)
    ELSE ColumnNames(prodKind)

\* The n-th data record the consumer writes for the row `row`.
ExpectedRecord(n, row) ==
    IF consKind = "Print" THEN <<to_string(n)>> \o row ELSE row

IsPrefix(s, t) == Len(s) <= Len(t) /\ SubSeq(t, 1, Len(s)) = s

ProducerFailed == prodResult \in {"err_fetch", "err_send"}

(***************************************************************************)
(* C1.  When the producer has sent its K rows and returned Ok, and the     *)
(* consumer has read the channel to its end without a failure of its sink, *)
(* the consumer has written one header and then exactly the K rows, in the *)
(* order sent; at every moment the rows received followed by the rows      *)
(* still buffered are exactly the rows sent (nothing lost, duplicated or   *)
(* reordered), whatever the interleaving.                                  *)
(***************************************************************************)
C1_RowsDeliveredInOrder ==
    /\ rxOpen => received \o buffer = sent
    /\ IsPrefix(received, sent)
    /\ (prodResult = "ok" /\ ReadToEnd /\ SinkAllOk) =>
         /\ received = sent
         /\ Len(WriteOps) = Len(sent) + 1
         /\ WriteOps[1].rec = ExpectedHeader
         /\ \A n \in 1 .. Len(sent) :
              WriteOps[n + 1].rec = ExpectedRecord(n, sent[n])

C1_Witness ==
    /\ prodResult = "ok"
    /\ consResult = "ok"
    /\ consKind = "Print"
    /\ Len(sent) >= 2
    /\ SinkAllOk

(***************************************************************************)
(* C2.  When the producer task has failed, its Sender is dropped and the   *)
(* error has been printed by the task; the consumer then reaches the end   *)
(* of its run (it does not wait forever), and an error result of the       *)
(* consumer always stems from a failure of its own sink, never from the    *)
(* producer.                                                               *)
(***************************************************************************)
C2_FailedProducerClosesChannel ==
    /\ [](ProducerFailed => (~txOpen /\ error_message = prodResult))
    /\ [](consResult = "err" => ~SinkAllOk)
    /\ (ProducerFailed ~> cpc = "done")

C2_Witness ==
    /\ prodResult = "err_fetch"
    /\ Len(sent) >= 1
    /\ cpc = "done"
    /\ consResult = "ok"

(***************************************************************************)
(* C3.  The channel never holds more than ChannelCapacity rows.  While it  *)
(* is full and the Receiver is alive, a producer that is sending does not  *)
(* move; while it is empty and the Sender is alive, a consumer that is     *)
(* receiving does not move.                                                *)
(***************************************************************************)
C3_BoundedChannel ==
    /\ [](Len(buffer) <= ChannelCapacity)
    /\ [][(ppc = "send" /\ Len(buffer) = ChannelCapacity /\ rxOpen)
            => UNCHANGED <<prodVars, sent>>]_vars
    /\ [][(cpc = "recv" /\ buffer = <<>> /\ txOpen)
            => UNCHANGED <<cpc, row_index, received, sink, consResult>>]_vars

C3_Witness ==
    /\ Len(buffer) = ChannelCapacity
    /\ ppc = "send"
    /\ rxOpen
    /\ cpc = "recv"

C5_PartialResultsStay ==
    /\ [](prodResult = "err_fetch" =>
            /\ ppc = "done"
            /\ ~txOpen
            /\ rxOpen => received \o buffer = sent
            /\ ReadToEnd => received = sent)
    /\ [][prodResult = "err_fetch" =>
            (sent' = sent /\ prodResult' = prodResult)]_vars

C5_Witness ==
    /\ prodResult = "err_fetch"
    /\ Len(sent) >= 2
    /\ ReadToEnd
    /\ received = sent

(***************************************************************************)
(* C6.  As claimed: a failed write of the header or of a data row is the   *)
(* last thing the consumer does, and its run ends with an error.           *)
(***************************************************************************)
C6_WriteFailureEndsRun ==
    \A k \in 1 .. Len(sink) :
        (IsWrite(sink[k]) /\ IsFailure(sink[k])) =>
            /\ k = Len(sink)
            /\ cpc = "done"
            /\ consResult = "err"
            /\ ~rxOpen

(***************************************************************************)
(* C7.  Print writes the header ["#"] + column_names before it receives a  *)
(* row, and the n-th record it writes after it is [n] + the n-th row       *)
(* received, n counting 1, 2, 3, ...                                       *)
(***************************************************************************)
C7_PrintIndexesRows ==
    consKind = "Print" =>
        /\ (cpc # "header" \/ received # <<>>) =>
              /\ Len(WriteOps) >= 1
              /\ WriteOps[1].rec = <<Str("#")>> \o ColumnNames(prodKind)
        /\ received # <<>> => WriteOps[1].ok
        /\ Len(WriteOps) = Len(received) + (IF cpc = "header" THEN 0 ELSE 1)
        /\ \A n \in 1 .. Len(received) :
              WriteOps[n + 1].rec = <<to_string(n)>> \o received[n]

C7_Witness ==
    /\ consKind = "Print"
    /\ consResult = "ok"
    /\ Len(received) >= 2

(***************************************************************************)
(* C8.  As claimed: the spreadsheet consumer appends the header only after *)
(* a successful clear, appends a data row only after the header, and       *)
(* reports the link only when every step before it succeeded.              *)
(***************************************************************************)
C8_SheetStepsInOrder ==
    consKind # "Print" =>
        \A k \in 1 .. Len(sink) :
            /\ IsWrite(sink[k]) =>
                 \E j \in 1 .. k - 1 : sink[j].op = "clear" /\ sink[j].ok
            /\ (IsWrite(sink[k]) /\ sink[k].rec # ColumnNames(prodKind)) =>
                 \E j \in 1 .. k - 1 :
                     /\ IsWrite(sink[j])
                     /\ sink[j].ok
                     /\ sink[j].rec = ColumnNames(prodKind)
            /\ sink[k].op = "link" =>
                 /\ k = Len(sink)
                 /\ \A j \in 1 .. k - 1 : sink[j].ok

(***************************************************************************)
(* What the pages hold, stated from the response shape.                    *)
(***************************************************************************)
HasNode(e) == IsSome(e) /\ IsSome(Unwrap(e).node)

\* The names of the nodes of one page, in the order of its edges.
ItemsOf(page) ==
    IF IsSome(page.edges)
    THEN LET with == SelectSeq(Unwrap(page.edges), HasNode)
         IN  [j \in 1 .. Len(with) |-> Unwrap(Unwrap(with[j]).node).name]
    ELSE <<>>

\* The items of the pages served to the first n requests, in that order.
RECURSIVE Accumulated(_)
Accumulated(n) ==
    IF n = 0 THEN <<>>
    ELSE Accumulated(n - 1) \o ItemsOf(pages[responses[n]])

\* The items of the first n pages, in page order.
RECURSIVE ConcatItems(_)
ConcatItems(n) ==
    IF n = 0 THEN <<>> ELSE ConcatItems(n - 1) \o ItemsOf(pages[n])

Returned(tag) == all_result[1] = tag

(***************************************************************************)
(* C9.  Over pages that all carry the organization, of which only the last *)
(* has hasNextPage = false: when all_repos returns Ok, it returns the      *)
(* items of all the pages, in page order and in the order of each page's   *)
(* edges, having asked for each page once; and when every page but the     *)
(* last gives an endCursor, what is accumulated after n responses is the   *)
(* items of the first n pages.                                             *)
(***************************************************************************)
C9_AllPagesConcatenated ==
    (\A k \in 1 .. Len(pages) : pages[k].kind = "ok") =>
        /\ Returned("Ok") =>
             /\ all_result[2] = ConcatItems(Len(pages))
             /\ responses = [k \in 1 .. Len(pages) |-> k]
        /\ ( /\ \A k \in 1 .. Len(pages) - 1 : IsSome(pages[k].end_cursor)
             /\ \A n \in 1 .. Len(responses) : responses[n] # 0 ) =>
             /\ responses = [k \in 1 .. Len(responses) |-> k]
             /\ repos = ConcatItems(Len(responses))

C9_Witness ==
    /\ apc = "done"
    /\ Returned("Ok")
    /\ Len(pages) >= 3
    /\ \A k \in 1 .. Len(pages) : pages[k].kind = "ok"
    /\ Len(all_result[2]) >= 5

(***************************************************************************)
(* C10.  A response without the organization ends all_repos: it is done,   *)
(* its result is Ok of the items accumulated from the responses before     *)
(* (none, when it is the first), and no request follows it: every response *)
(* that is followed by another request was a page with the organization.   *)
(***************************************************************************)
C10_NoOrganizationStops ==
    /\ Len(requests) = Len(responses)
    /\ \A n \in 1 .. Len(responses) - 1 :
          responses[n] # 0 /\ pages[responses[n]].kind = "ok"
    /\ ( /\ responses # <<>>
         /\ responses[Len(responses)] # 0
         /\ pages[responses[Len(responses)]].kind = "no_org" ) =>
          /\ apc = "done"
          /\ Returned("Ok")
          /\ all_result[2] = Accumulated(Len(responses) - 1)

C10_Witness ==
    /\ Len(responses) >= 2
    /\ responses[Len(responses)] # 0
    /\ pages[responses[Len(responses)]].kind = "no_org"
    /\ Returned("Ok")
    /\ Len(all_result[2]) >= 2

(***************************************************************************)
(* C11.  A failed request ends all_repos: it is done, no request follows   *)
(* the failed one, and its result is the error, which carries none of the  *)
(* names accumulated from the pages before.                                *)
(***************************************************************************)
C11_RequestFailureIsReturned ==
    /\ \A n \in 1 .. Len(responses) - 1 : responses[n] # 0
    /\ (responses # <<>> /\ responses[Len(responses)] = 0) =>
          /\ apc = "done"
          /\ Len(requests) = Len(responses)
          /\ all_result = Err("request")
          /\ ~Returned("Ok")

C11_Witness ==
    /\ Len(responses) >= 3
    /\ responses[Len(responses)] = 0
    /\ Len(repos) >= 2
    /\ Returned("Err")

(***************************************************************************)
(* C12.  As claimed: when a response has no data, all_repos is done and    *)
(* its result is an error value handed to the caller.                      *)
(***************************************************************************)
C12_MissingDataIsReturned ==
    ( /\ responses # <<>>
      /\ responses[Len(responses)] # 0
      /\ pages[responses[Len(responses)]].kind = "no_data" ) =>
          /\ apc = "done"
          /\ Returned("Err")

(***************************************************************************)
(* What a search holds, stated from the response shape.                    *)
(***************************************************************************)
Logins == {"alice", "bob", "carol"}

IsPullRequest(e) ==
    /\ IsSome(e)
    /\ IsSome(Unwrap(e).node)
    /\ Unwrap(Unwrap(e).node).typename = "PullRequest"

\* The pull requests of one page, in the order of its edges.
PullRequestsOf(page) ==
    IF IsSome(page.edges)
    THEN LET prs == SelectSeq(Unwrap(page.edges), IsPullRequest)
         IN  [j \in 1 .. Len(prs) |-> Unwrap(Unwrap(prs[j]).node).pr]
    ELSE <<>>

\* The pull requests of the pages served to the first n requests.
RECURSIVE Served(_)
Served(n) ==
    IF n = 0 THEN <<>>
    ELSE Served(n - 1) \o
         (IF pr_responses[n] \in {0, -1} THEN <<>>
          ELSE PullRequestsOf(search[pr_responses[n]]))

ServedAll == Served(Len(pr_responses))

IsUser(actor) == IsSome(actor) /\ Unwrap(actor).on = "User"

\* The participants of a pull request: the logins of the edges with a node.
ParticipantsOf(pr) ==
    IF IsSome(pr.participants.edges)
    THEN LET edges == Unwrap(pr.participants.edges)
         IN  {Unwrap(Unwrap(edges[k]).node).login :
                 k \in {j \in 1 .. Len(edges) : HasNode(edges[j])}}
    ELSE {}

\* The review entries of a pull request with reviews.
ReviewEntries(pr) ==
    IF IsSome(Unwrap(pr.reviews).nodes) THEN Unwrap(Unwrap(pr.reviews).nodes)
    ELSE <<>>

HasReviewBy(entry, l) ==
    /\ IsSome(entry)
    /\ IsUser(Unwrap(entry).author)
    /\ Unwrap(Unwrap(entry).author).login = l

\* How many reviews of the pull request are l's.
ReviewsBy(pr, l) ==
    Cardinality({k \in 1 .. Len(ReviewEntries(pr)) :
                    HasReviewBy(ReviewEntries(pr)[k], l)})

AuthoredBy(pr, l) == IsUser(pr.author) /\ Unwrap(pr.author).login = l

MergedBy(pr, l) == IsUser(pr.merged_by) /\ Unwrap(pr.merged_by).login = l

\* How many of the pull requests satisfy P.
HowMany(prs, P(_)) == Cardinality({i \in 1 .. Len(prs) : P(prs[i])})

\* The count of l in what pr_participants returned (0 without an entry).
Count(result, l, field) ==
    IF \E k \in 1 .. Len(result) : result[k].login = l
    THEN (CHOOSE e \in {result[k] : k \in 1 .. Len(result)} : e.login = l)[field]
    ELSE 0

RECURSIVE Sum(_, _, _)
Sum(result, field, n) ==
    IF n = 0 THEN 0 ELSE Sum(result, field, n - 1) + result[n][field]

ParticipantsReturned(tag) == pr_result[1] = tag

(***************************************************************************)
(* C13.  When pr_participants returns the counts, every login has one      *)
(* entry at most, its participated_in is the number of pull requests it is *)
(* a participant of and not the author of, and its reviewed is the number  *)
(* of pull requests it reviewed, once or several times, and is not the     *)
(* author of.                                                              *)
(***************************************************************************)
C13_ParticipatedAndReviewed ==
    ParticipantsReturned("Ok") =>
        LET result == pr_result[2]
            prs == ServedAll
        IN  /\ \A j, k \in 1 .. Len(result) :
                  result[j].login = result[k].login => j = k
            /\ \A l \in Logins :
                  LET Participated(pr) ==
                          l \in ParticipantsOf(pr) /\ ~AuthoredBy(pr, l)
                      Reviewed(pr) ==
                          ReviewsBy(pr, l) >= 1 /\ ~AuthoredBy(pr, l)
                  IN  /\ Count(result, l, "participated_in")
                           = HowMany(prs, Participated)
                      /\ Count(result, l, "reviewed") = HowMany(prs, Reviewed)

C13_Witness ==
    /\ ParticipantsReturned("Ok")
    /\ Len(search) >= 2
    /\ Len(ServedAll) >= 3
    /\ \E i \in 1 .. Len(ServedAll) :
          /\ ReviewsBy(ServedAll[i], "bob") >= 2
          /\ AuthoredBy(ServedAll[i], "alice")
          /\ "alice" \in ParticipantsOf(ServedAll[i])
    /\ \E i \in 1 .. Len(ServedAll) :
          /\ ReviewsBy(ServedAll[i], "bob") = 1
          /\ AuthoredBy(ServedAll[i], "bob")
    /\ Count(pr_result[2], "bob", "reviewed") = 1

(***************************************************************************)
(* C14.  As claimed: the authored counts add up to the number of pull      *)
(* requests that have an author and the resolved counts to the number that *)
(* have a merger.                                                          *)
(***************************************************************************)
C14_AuthoredAndResolvedOfAnyActor ==
    ParticipantsReturned("Ok") =>
        LET result == pr_result[2]
            HasAuthor(pr) == IsSome(pr.author)
            HasMerger(pr) == IsSome(pr.merged_by)
        IN  /\ Sum(result, "authored", Len(result)) = HowMany(ServedAll, HasAuthor)
            /\ Sum(result, "resolved", Len(result)) = HowMany(ServedAll, HasMerger)

(***************************************************************************)
(* C14, amended.  When pr_participants returns the counts, the authored of *)
(* a login is the number of pull requests whose author is that user and    *)
(* its resolved the number merged by that user; the authored counts add up *)
(* to the number of pull requests whose author is a user and the resolved  *)
(* counts to the number whose merger is a user.                            *)
(***************************************************************************)
C14_AuthoredAndResolved ==
    ParticipantsReturned("Ok") =>
        LET result == pr_result[2]
            prs == ServedAll
            HasUserAuthor(pr) == IsUser(pr.author)
            HasUserMerger(pr) == IsUser(pr.merged_by)
        IN  /\ \A l \in Logins :
                  LET Authored(pr) == AuthoredBy(pr, l)
                      Merged(pr) == MergedBy(pr, l)
                  IN  /\ Count(result, l, "authored") = HowMany(prs, Authored)
                      /\ Count(result, l, "resolved") = HowMany(prs, Merged)
            /\ Sum(result, "authored", Len(result)) = HowMany(prs, HasUserAuthor)
            /\ Sum(result, "resolved", Len(result)) = HowMany(prs, HasUserMerger)

C14_Witness ==
    /\ ParticipantsReturned("Ok")
    /\ Len(ServedAll) >= 3
    /\ \E i \in 1 .. Len(ServedAll) :
          IsSome(ServedAll[i].author) /\ ~IsUser(ServedAll[i].author)
    /\ Count(pr_result[2], "alice", "authored") >= 1
    /\ Count(pr_result[2], "bob", "resolved") >= 1
    /\ Count(pr_result[2], "alice", "resolved") >= 1

(***************************************************************************)
(* Complete and partial lists, stated from the response shape.             *)
(***************************************************************************)
\* How many participant entries of the pull request were retrieved.
ParticipantEntries(pr) ==
    IF IsSome(pr.participants.edges)
    THEN Cardinality({k \in 1 .. Len(Unwrap(pr.participants.edges)) :
                         HasNode(Unwrap(pr.participants.edges)[k])})
    ELSE 0

\* The lists retrieved are not the whole lists the source reports.
IsPartial(pr) ==
    \/ ParticipantEntries(pr) # pr.participants.total_count
    \/ /\ IsSome(pr.reviews)
       /\ Len(ReviewEntries(pr)) # Unwrap(pr.reviews).total_count

RECURSIVE PullRequestsIn(_, _)
PullRequestsIn(pgs, n) ==
    IF n = 0 THEN <<>>
    ELSE PullRequestsIn(pgs, n - 1) \o PullRequestsOf(pgs[n])

HasPartial(prs) == \E i \in 1 .. Len(prs) : IsPartial(prs[i])

IsRepoParticipants == prodKind \in {"RepoParticipants", "RepoParticipantsOne"}

\* The searches answered to the producer that hold a partial list.
PartialFetches ==
    {i \in 1 .. Len(fetched) :
        /\ fetched[i][1][1] = "Ok"
        /\ HasPartial(PullRequestsIn(fetched[i][1][2], Len(fetched[i][1][2])))}

RECURSIVE EdgesIn(_, _)
EdgesIn(pgs, n) ==
    IF n = 0 THEN <<>>
    ELSE EdgesIn(pgs, n - 1) \o
         (IF IsSome(pgs[n].edges) THEN Unwrap(pgs[n].edges) ELSE <<>>)

Rearranged(edges) ==
    LET n == Len(edges)
        perms == {f \in [1 .. n -> 1 .. n] : \A j \in 1 .. n : \E k \in 1 .. n : f[k] = j}
    IN  UNION {{SearchPages(chunks) :
                   chunks \in Chunks([k \in 1 .. n |-> edges[f[k]]])} :
               f \in perms}

(***************************************************************************)
(* C16.  When pr_participants has ended on the pages of a search, every    *)
(* run over the same search edges, in any order and cut into pages in any  *)
(* way (the same order and cut included), returns the same: the same       *)
(* sequence of logins with the same counts when this run returned counts,  *)
(* and no counts when this run returned none.                              *)
(***************************************************************************)
C16_AggregationIsOrderIndependent ==
    (gpc = "done" /\ pr_responses[Len(pr_responses)] >= 1) =>
        \A other \in Rearranged(EdgesIn(search, Len(search))) :
            IF ParticipantsReturned("Ok")
            THEN pr_participants(other) = {pr_result}
            ELSE \A r \in pr_participants(other) : r[1] # "Ok"

C16_Witness ==
    /\ gpc = "done"
    /\ ParticipantsReturned("Ok")
    /\ Len(search) = 2
    /\ Len(ServedAll) = 3
    /\ Len(pr_result[2]) = 3
    /\ pr_result[2][1].participated_in = pr_result[2][2].participated_in
    /\ ServedAll[1] # ServedAll[2]
    /\ ServedAll[2] # ServedAll[3]

(***************************************************************************)
(* Reading a row back.                                                     *)
(***************************************************************************)
DigitValue(c) == CHOOSE d \in 0 .. 9 : Digit[d + 1] = c

RECURSIVE Parse(_)
Parse(str) ==
    IF str = <<>> THEN 0
    ELSE Parse(SubSeq(str, 1, Len(str) - 1)) * 10 + DigitValue(str[Len(str)])

(***************************************************************************)
(* C17.  Of two rows the RepoParticipants producer has sent for the same   *)
(* repository, the one sent first has the larger "PRs participated in",    *)
(* or the same and the smaller login.                                      *)
(***************************************************************************)
C17_ParticipantRowsSorted ==
    IsRepoParticipants =>
        \A j, k \in 1 .. Len(sent) :
            (j < k /\ sent[j][2] = sent[k][2]) =>
                \/ Parse(sent[j][3]) > Parse(sent[k][3])
                \/ /\ Parse(sent[j][3]) = Parse(sent[k][3])
                   /\ LoginLess(sent[j][1][1], sent[k][1][1])

C17_Witness ==
    /\ IsRepoParticipants
    /\ Len(sent) >= 3
    /\ sent[1][2] = sent[3][2]
    /\ Parse(sent[1][3]) > Parse(sent[2][3])
    /\ Parse(sent[2][3]) = Parse(sent[3][3])

(***************************************************************************)
(* C18.  Every row sent has as many fields as the producer's column_names. *)
(***************************************************************************)
C18_RowsMatchColumnNames ==
    prodKind \in ProducerKinds =>
        \A k \in 1 .. Len(sent) : Len(sent[k]) = Len(ColumnNames(prodKind))

C18_Witness ==
    /\ prodKind = "IssueClosures"
    /\ Len(sent) = 2
    /\ Len(sent[2]) = 6
    /\ prodResult = "ok"

(***************************************************************************)
(* C19.  ListReposForOrg and IssueClosures have sent, for a prefix of the  *)
(* repository list, one row each in the order of the list; a repository    *)
(* whose row was sent had all its counts answered (one count for           *)
(* ListReposForOrg, two for IssueClosures), the row carries them, and a    *)
(* producer that returned Ok sent the row of every repository.             *)
(***************************************************************************)
C19_OneRowPerRepository ==
    prodKind \in {"ListReposForOrg", "IssueClosures"} =>
        /\ Len(sent) <= Len(fetched)
        /\ Len(fetched) <= Len(repo_names)
        /\ \A k \in 1 .. Len(sent) :
              /\ \A q \in 1 .. Len(fetched[k]) : fetched[k][q][1] = "Ok"
              /\ IF prodKind = "ListReposForOrg"
                 THEN /\ Len(fetched[k]) = 1
                      /\ sent[k] = <<repo_names[k], to_string(fetched[k][1][2])>>
                 ELSE /\ Len(fetched[k]) = 2
                      /\ sent[k][2] = repo_names[k]
                      /\ sent[k][3] = to_string(fetched[k][1][2])
                      /\ sent[k][4] = to_string(fetched[k][2][2])
        /\ prodResult = "ok" => Len(sent) = Len(repo_names)

C19_Witness ==
    /\ prodKind = "IssueClosures"
    /\ Len(repo_names) = 2
    /\ Len(sent) = 1
    /\ Len(fetched) = 2
    /\ fetched[2] = <<Ok(12), Err("request")>>
    /\ prodResult = "err_fetch"

(***************************************************************************)
(* The three flags, stated from the thresholds: x is more than t percent   *)
(* of d, rounded down, exactly when d > 0 and 100 x >= (t + 1) d.          *)
(***************************************************************************)
MorePercentThan(x, d, t) == d > 0 /\ 100 * x >= (t + 1) * d

MaxOf(a, b) == IF a >= b THEN a ELSE b

Flags ==
    LET r == MaxOf(participant.reviewed, participant.resolved)
    IN  <<MorePercentThan(r, num_prs, hc.high_reviewer_min_percentage)
            \/ r > hc.high_reviewer_min_prs,
          MorePercentThan(participant.participated_in, num_prs,
                          hc.high_participant_min_percentage)
            /\ participant.participated_in > hc.high_participant_min_prs,
          MorePercentThan(participant.authored, num_prs,
                          hc.high_author_min_percentage)
            /\ participant.authored > hc.high_author_min_prs>>

(***************************************************************************)
(* C20.  is_high_contributor returns true exactly when at least            *)
(* categories_required of the flags high_reviewer (percentage or count     *)
(* above its minimum), high_activity and high_author (percentage and count *)
(* above their minimums) are true; with 10 pull requests, 6 authored, the  *)
(* author minimums 50 percent and 3, and one category required, it returns *)
(* true.                                                                   *)
(***************************************************************************)
C20_HighContributor ==
    IsSome(high) =>
        /\ Unwrap(high) =
              (Cardinality({k \in 1 .. 3 : Flags[k]})
                 >= hc.high_contributor_categories_threshold)
        /\ ( /\ num_prs = 10
             /\ participant.authored = 6
             /\ hc.high_author_min_percentage = 50
             /\ hc.high_author_min_prs = 3
             /\ hc.high_contributor_categories_threshold = 1 ) =>
              Unwrap(high) = TRUE

C20_Witness ==
    /\ high = Some(TRUE)
    /\ num_prs = 10
    /\ participant.authored = 6
    /\ participant.participated_in = 0
    /\ participant.reviewed = 0
    /\ participant.resolved = 0
    /\ hc.high_author_min_percentage = 50
    /\ hc.high_author_min_prs = 3
    /\ hc.high_reviewer_min_percentage = 50
    /\ hc.high_contributor_categories_threshold = 1

(***************************************************************************)
(* Reading the report's participants and what was called on them.          *)
(***************************************************************************)
WasCalled(fn) == IsSome(called) /\ Unwrap(called).fn = fn

\* The parsed participants of the repository of repo_info, in file order.
OfRepo == SelectSeq(Unwrap(data), LAMBDA p : p.repo = repo_info.repo)

\* The names of a joined list.
RECURSIVE Split(_, _)
Split(str, sep) ==
    IF str = <<>> THEN <<>>
    ELSE IF \E k \in 1 .. Len(str) : str[k] = sep
    THEN LET k == CHOOSE i \in 1 .. Len(str) :
                      str[i] = sep /\ \A j \in 1 .. i - 1 : str[j] # sep
         IN  <<SubSeq(str, 1, k - 1)>> \o Split(SubSeq(str, k + 1, Len(str)), sep)
    ELSE <<str>>

\* The orders that list the participants ps by descending metric.
Descending(ps, key) ==
    {f \in [1 .. Len(ps) -> 1 .. Len(ps)] :
        /\ \A j \in 1 .. Len(ps) : \E k \in 1 .. Len(ps) : f[k] = j
        /\ \A j, k \in 1 .. Len(ps) :
              j < k => Key(key, ps[f[j]]) >= Key(key, ps[f[k]])}

RECURSIVE PrefixSum(_, _, _, _)
PrefixSum(ps, f, key, n) ==
    IF n = 0 THEN 0 ELSE PrefixSum(ps, f, key, n - 1) + Key(key, ps[f[n]])

\* name is "login (q%)" with q the percentage x is of d, rounded down.
IsNameWithPercent(name, login, x, d) ==
    /\ Len(name) >= 4
    /\ name[1] = login
    /\ name[2] = " ("
    /\ name[Len(name)] = "%)"
    /\ LET q == Parse(SubSeq(name, 3, Len(name) - 1))
       IN  IF d = 0 THEN q = 0 ELSE q * d <= 100 * x /\ 100 * x < (q + 1) * d

\* The participants of the scenario: alice 5, bob 3 and carol 2 of 10.
IsScenario ==
    /\ repo_info.num_prs = 10
    /\ Len(OfRepo) = 3
    /\ \E f \in Descending(OfRepo, "participated_in") :
          /\ OfRepo[f[1]].participant = "alice" /\ OfRepo[f[1]].participated_in = 5
          /\ OfRepo[f[2]].participant = "bob" /\ OfRepo[f[2]].participated_in = 3
          /\ OfRepo[f[3]].participant = "carol" /\ OfRepo[f[3]].participated_in = 2

IsPercentage(q, x, d) ==
    IF d = 0 THEN q = 0 ELSE q * d <= 100 * x /\ 100 * x < (q + 1) * d

(***************************************************************************)
(* C22.  top_participant returns the login of a participant row of the     *)
(* repository whose metric is the maximum of the repository's rows, with   *)
(* that metric as a percentage of num_prs; without a row of the repository *)
(* it returns "N/A" and 0.                                                 *)
(***************************************************************************)
C22_TopParticipantIsMaximum ==
    WasCalled("top_participant") =>
        LET c == Unwrap(called)
        IN  IF OfRepo = <<>>
            THEN c.out = <<Str("N/A"), 0>>
            ELSE \E k \in 1 .. Len(OfRepo) :
                    /\ c.out[1] = Str(OfRepo[k].participant)
                    /\ \A j \in 1 .. Len(OfRepo) :
                          Key(c.key, OfRepo[j]) <= Key(c.key, OfRepo[k])
                    /\ IsPercentage(c.out[2], Key(c.key, OfRepo[k]), repo_info.num_prs)

C22_Witness ==
    /\ WasCalled("top_participant")
    /\ Len(OfRepo) = 2
    /\ Len(Unwrap(data)) = 3
    /\ Key(Unwrap(called).key, OfRepo[1]) < Key(Unwrap(called).key, OfRepo[2])
    /\ Unwrap(called).out = <<Str("bob"), 30>>

(***************************************************************************)
(* C23.  percentage(n, d) is n * 100 / d rounded down for d > 0, it is 0   *)
(* for d = 0 and for n = 0, and percentage(n, n) is 100 for every n.       *)
(***************************************************************************)
C23_PercentageOfItselfIs100 ==
    IsSome(pct.out) =>
        LET q == Unwrap(pct.out)
        IN  /\ pct.d > 0 => q * pct.d <= 100 * pct.x /\ 100 * pct.x < (q + 1) * pct.d
            /\ pct.d = 0 => q = 0
            /\ (pct.x = 0 /\ pct.d > 0) => q = 0
            /\ pct.x = pct.d => q = 100

(***************************************************************************)
(* C23, amended.  percentage(n, d) is n * 100 / d rounded down for d > 0,  *)
(* it is 0 for d = 0 and for n = 0, and percentage(n, n) is 100 for every  *)
(* n > 0.                                                                  *)
(***************************************************************************)
C23_PercentageRoundsDown ==
    IsSome(pct.out) =>
        LET q == Unwrap(pct.out)
        IN  /\ pct.d > 0 => q * pct.d <= 100 * pct.x /\ 100 * pct.x < (q + 1) * pct.d
            /\ pct.d = 0 => q = 0
            /\ (pct.x = 0 /\ pct.d > 0) => q = 0
            /\ (pct.x = pct.d /\ pct.d > 0) => q = 100

C23_Witness ==
    /\ pct.x = 2
    /\ pct.d = 3
    /\ pct.out = Some(66)

\* The logins of the robot denylist.
Denylist ==
    {"rust-highfive", "bors", "rustbot", "rust-log-analyzer", "rust-timer", "rfcbot"}

\* The records of the file that are of the repository and of no robot.
Eligible ==
    {k \in 1 .. Len(csv_records) :
        /\ csv_records[k].repo = repo_info.repo
        /\ csv_records[k].participant \notin Denylist}

NamesRobot(names) ==
    \E k \in 1 .. Len(names) : \E robot \in Denylist : names[k][1] = robot

(***************************************************************************)
(* C24.  The parsed participants hold no login of the robot denylist, so   *)
(* no such login is returned by top_participant, named by saturation,      *)
(* counted in the totals of a row or named as a high contributor of a row, *)
(* whatever its counts in the file.                                        *)
(***************************************************************************)
C24_RobotsAreExcluded ==
    /\ IsSome(data) =>
          \A k \in 1 .. Len(Unwrap(data)) : Unwrap(data)[k].participant \notin Denylist
    /\ WasCalled("top_participant") =>
          \A robot \in Denylist : Unwrap(called).out[1] # Str(robot)
    /\ WasCalled("saturation") => ~NamesRobot(Split(Unwrap(called).out[1], ", "))
    /\ WasCalled("high_contributor_row") =>
          LET row == Unwrap(called).out
          IN  /\ row.total_participants =
                    Cardinality({k \in Eligible : csv_records[k].participated_in > 0})
              /\ row.total_authors =
                    Cardinality({k \in Eligible : csv_records[k].authored > 0})
              /\ row.total_reviewers =
                    Cardinality({k \in Eligible :
                        csv_records[k].reviewed > 0 \/ csv_records[k].resolved > 0})
              /\ \A robot \in Denylist :
                    /\ row.top_author # Str(robot)
                    /\ row.top_reviewer # Str(robot)
                    /\ row.top_participant # Str(robot)
              /\ ~NamesRobot(Split(row.high_contributor_names, ","))
              /\ ~NamesRobot(Split(row.saturation_author_names, ", "))
              /\ ~NamesRobot(Split(row.saturation_reviewer_names, ", "))
              /\ row.high_contributors <= Cardinality(Eligible)

C24_Witness ==
    /\ WasCalled("high_contributor_row")
    /\ repo_info.num_prs = 10
    /\ Len(csv_records) = 2
    /\ csv_records[1].participant = "bob"
    /\ csv_records[1].authored = 3
    /\ csv_records[2].participant = "bors"
    /\ csv_records[2].authored = 6
    /\ csv_records[2].repo = repo_info.repo
    /\ Unwrap(called).out.top_author = Str("bob")
    /\ Unwrap(called).out.total_authors = 1
    /\ Unwrap(called).out.high_contributors = 1

(***************************************************************************)
(* Reading a report run.                                                   *)
(***************************************************************************)
IndexOf(name) == CHOOSE k \in 1 .. Len(Stages) : Stages[k] = name

Created(file) == \E k \in 1 .. Len(files) : files[k] = file

RunFailedAt(name) == run_result = Err(name)

C27_FailedStageStopsTheRun ==
    stage > 0 =>
        /\ \A name \in {Stages[k] : k \in 1 .. Len(Stages)} :
              RunFailedAt(name) =>
                  /\ stage = IndexOf(name)
                  /\ \A k \in IndexOf(name) + 1 .. Len(Stages) :
                        /\ ~Created(FileOf(Stages[k]))
                        /\ Stages[k] \in InputStages => pipes[Stages[k]] = NotStarted
                  /\ \A k \in 2 .. IndexOf(name) - 1 : Created(FileOf(Stages[k]))
        /\ \A j, k \in 1 .. Len(Outputs) :
              (j < k /\ Created(FileOf(Outputs[k]))) => Created(FileOf(Outputs[j]))
        /\ Created(FileOf(Outputs[1])) =>
              \A k \in 1 .. Len(Inputs) : Created(FileOf(Inputs[k]))

C27_Witness ==
    /\ RunFailedAt("write_high_contributors")
    /\ Created("output/top-crates.csv")
    /\ Created("inputs/repo-infos.csv")
    /\ ~Created("output/issue-closures.csv")
    /\ failures = << <<"write_high_contributors", "create">> >>

\* The n-th name (from 0) of the enumeration A, ..., Z, AA, AB, ...
RECURSIVE ColumnName(_)
ColumnName(n) ==
    IF n < 26 THEN <<ASCII_UPPER[n + 1]>>
    ELSE ColumnName(n \div 26 - 1) \o <<ASCII_UPPER[(n % 26) + 1]>>

(***************************************************************************)
(* C28.  For every column from 0 to 18277, get_column_notation returns the *)
(* name of the column in the enumeration A, ..., Z, AA, ..., ZZ, AAA, ...,  *)
(* ZZZ: 0 gives A, 25 Z, 26 AA, 701 ZZ, 702 AAA and 18277 ZZZ.  (Different  *)
(* columns then have different names.)                                     *)
(***************************************************************************)
C28_ColumnNotation ==
    /\ ColumnName(0) = <<"A">>
    /\ ColumnName(25) = <<"Z">>
    /\ ColumnName(26) = <<"A", "A">>
    /\ ColumnName(701) = <<"Z", "Z">>
    /\ ColumnName(702) = <<"A", "A", "A">>
    /\ ColumnName(18277) = <<"Z", "Z", "Z">>
    /\ notation # None => notation = Ok(ColumnName(column))

\* Response n was a page of the organization.
IsPage(n) == responses[n] # 0 /\ pages[responses[n]].kind = "ok"

(***************************************************************************)
(* C29.  The first request of all_repos carries no cursor; every request   *)
(* has been answered and its page accumulated before the next is made;     *)
(* the request after a page with hasNextPage = true carries that page's    *)
(* endCursor; and no request follows a page with hasNextPage = false.      *)
(***************************************************************************)
C29_OneRequestAtATime ==
    /\ Len(requests) = Len(responses)
    /\ requests # <<>> => requests[1] = None
    /\ \A k \in 1 .. Len(requests) - 1 :
          /\ IsPage(k)
          /\ pages[responses[k]].has_next_page
          /\ requests[k + 1] = pages[responses[k]].end_cursor
    /\ \A k \in 1 .. Len(responses) :
          (IsPage(k) /\ ~pages[responses[k]].has_next_page) =>
              /\ k = Len(requests)
              /\ apc = "done"
    /\ (\A k \in 1 .. Len(responses) : IsPage(k)) => repos = Accumulated(Len(responses))

C29_Witness ==
    /\ apc = "done"
    /\ Len(requests) = 3
    /\ requests = <<None, Some(1), Some(2)>>
    /\ IsPage(3)
    /\ ~pages[responses[3]].has_next_page
    /\ Len(repos) >= 3

(***************************************************************************)
(* C30.  In all_repos only the first request carries no cursor, no page is *)
(* served twice and no name is accumulated twice, whatever the responses   *)
(* are (a page with hasNextPage = true and no endCursor included).         *)
(***************************************************************************)
C30_NoPageRequestedTwice ==
    /\ \A k \in 2 .. Len(requests) : requests[k] # None
    /\ \A j, k \in 1 .. Len(responses) :
          (j < k /\ responses[j] # 0) => responses[j] # responses[k]
    /\ \A j, k \in 1 .. Len(repos) : j < k => repos[j] # repos[k]

(***************************************************************************)
(* C31.  Once consume has returned the Receiver is dropped.  A producer    *)
(* that is in a send when the CSV consumer has returned the error of a     *)
(* failed write does not stay there: its send fails, the task ends with    *)
(* the send error and drops its Sender, also when the channel was full     *)
(* and more rows were to follow.                                           *)
(***************************************************************************)
C31_BlockedProducerIsReleased ==
    /\ [](cpc = "done" => ~rxOpen)
    /\ ((consKind = "Print" /\ consResult = "err" /\ ppc = "send")
          ~> (ppc = "done" /\ prodResult = "err_send" /\ ~txOpen))

C31_Witness ==
    /\ consKind = "Print"
    /\ consResult = "err"
    /\ received = <<>>
    /\ Len(org_repos) > ChannelCapacity
    /\ Len(sent) = ChannelCapacity
    /\ pending # <<>>
    /\ ppc = "done"
    /\ prodResult = "err_send"

\* No login appears twice in the participant list of the pull request.
ListedOnce(pr) ==
    IF IsSome(pr.participants.edges)
    THEN LET edges == Unwrap(pr.participants.edges)
         IN  \A j, k \in 1 .. Len(edges) :
                (/\ HasNode(edges[j])
                 /\ HasNode(edges[k])
                 /\ Unwrap(Unwrap(edges[j]).node).login
                      = Unwrap(Unwrap(edges[k]).node).login) => j = k
    ELSE TRUE

(***************************************************************************)
(* C32.  When pr_participants returns the counts of N pull requests none   *)
(* of which lists a login twice, then for every login participated_in +    *)
(* authored, reviewed + authored and resolved are at most N, and the       *)
(* authored counts add up to at most N.                                    *)
(***************************************************************************)
C32_CountsAreBoundedByPullRequests ==
    (/\ ParticipantsReturned("Ok")
     /\ \A i \in 1 .. Len(ServedAll) : ListedOnce(ServedAll[i])) =>
        LET result == pr_result[2]
            N == Len(ServedAll)
        IN  /\ \A k \in 1 .. Len(result) :
                  /\ result[k].participated_in + result[k].authored <= N
                  /\ result[k].reviewed + result[k].authored <= N
                  /\ result[k].resolved <= N
            /\ Sum(result, "authored", Len(result)) <= N

C32_Witness ==
    /\ ParticipantsReturned("Ok")
    /\ Len(ServedAll) = 2
    /\ \A i \in 1 .. Len(ServedAll) : ListedOnce(ServedAll[i])
    /\ Count(pr_result[2], "alice", "participated_in") = 1
    /\ Count(pr_result[2], "alice", "reviewed") = 1
    /\ Count(pr_result[2], "alice", "authored") = 1
    /\ Sum(pr_result[2], "authored", Len(pr_result[2])) = 2

\* The same records in every order.
Reordered(records) ==
    LET n == Len(records)
        perms == {f \in [1 .. n -> 1 .. n] : \A j \in 1 .. n : \E k \in 1 .. n : f[k] = j}
    IN  {[k \in 1 .. n |-> records[f[k]]] : f \in perms}

(***************************************************************************)
(* C33.  top_participant returns the same login for the records of the     *)
(* file in any other order, also when several participants of the          *)
(* repository have the maximum.                                            *)
(***************************************************************************)
C33_TopParticipantIsOrderIndependent ==
    WasCalled("top_participant") =>
        \A other \in Reordered(csv_records) :
            top_participant(parse_participants(other), repo_info,
                            Unwrap(called).key)[1] = Unwrap(called).out[1]

\* The records of the file that are of the repository of the row.
RecordsOfRepo == SelectSeq(csv_records, LAMBDA r : r.repo = repo_info.repo)

\* The configuration of a call of high_contributor_row.
ConfigOf(c) ==
    CHOOSE config \in ReportConfigs : config.author_saturation_threshold = c.threshold

(***************************************************************************)
(* C34.  What top_participant, saturation and high_contributor_row return  *)
(* for a repository is what they return for the file without the records   *)
(* of other repositories, with the same RepoInfo and thresholds.  So two   *)
(* files with the same records of the repository, in the same order, give  *)
(* the same row, whatever records of other repositories they hold.         *)
(***************************************************************************)
C34_RowDependsOnItsRepositoryOnly ==
    IsSome(called) =>
        LET c == Unwrap(called)
            own == parse_participants(RecordsOfRepo)
        IN  CASE c.fn = "top_participant" ->
                   c.out = top_participant(own, repo_info, c.key)
              [] c.fn = "saturation" ->
                   c.out = saturation(own, c.threshold, repo_info, c.key)
              [] c.fn = "high_contributor_row" ->
                   c.out = high_contributor_row(ConfigOf(c), own, repo_info)

C34_Witness ==
    /\ WasCalled("high_contributor_row")
    /\ repo_info.num_prs = 10
    /\ Len(csv_records) = 3
    /\ csv_records[1].repo # repo_info.repo
    /\ csv_records[1].participant = "carol"
    /\ csv_records[2].repo = repo_info.repo
    /\ csv_records[2].participant = "bob"
    /\ csv_records[2].authored = 3
    /\ csv_records[3].repo # repo_info.repo
    /\ csv_records[3].participant = "alice"
    /\ Unwrap(called).out.top_author = Str("bob")
    /\ Unwrap(called).out.top_participant = Str("bob")
    /\ Unwrap(called).out.total_authors = 1
    /\ Unwrap(called).out.saturation_authors = 1
    /\ Unwrap(called).out.high_contributor_names = Str("bob")

(***************************************************************************)
(* C35.  With no category required is_high_contributor returns true for    *)
(* every participant, one whose counts are all 0 included; with more than  *)
(* three categories required it returns false for every participant.       *)
(***************************************************************************)
C35_CategoriesRequiredAtTheExtremes ==
    IsSome(high) =>
        /\ hc.high_contributor_categories_threshold = 0 => Unwrap(high) = TRUE
        /\ hc.high_contributor_categories_threshold > 3 => Unwrap(high) = FALSE

C35_Witness ==
    /\ high = Some(TRUE)
    /\ hc.high_contributor_categories_threshold = 0
    /\ num_prs = 10
    /\ participant.participated_in = 0
    /\ participant.authored = 0
    /\ participant.reviewed = 0
    /\ participant.resolved = 0

\* An output stage has started: run is at it or beyond it.
OutputStarted == stage >= IndexOf(Outputs[1])

\* The stage failed.
FailedAt(name) == \E k \in 1 .. Len(failures) : failures[k][1] = name

(***************************************************************************)
(* C36.  An output stage of Report::run starts, and an output file is      *)
(* created, only when every input stage has returned Ok: its consumer has  *)
(* read its stream to the end and its file was created and parsed.  When   *)
(* an input stage has failed, no output file has been created.             *)
(***************************************************************************)
C36_OutputsOnlyAfterAllInputs ==
    stage > 0 =>
        /\ (OutputStarted \/ \E name \in OutputStages : Created(FileOf(name))) =>
              \A p \in InputStages :
                  /\ pipes[p].consumer = "ok"
                  /\ Created(FileOf(p))
                  /\ ~FailedAt(p)
        /\ (\E p \in InputStages : FailedAt(p)) =>
              /\ ~OutputStarted
              /\ \A name \in OutputStages : ~Created(FileOf(name))

C36_Witness ==
    /\ RunFailedAt("repo_infos")
    /\ failures = << <<"repo_infos", "parse">> >>
    /\ pipes["top_crates"].consumer = "ok"
    /\ pipes["repo_participants"].consumer = "ok"
    /\ Len(pipes["repo_infos"].received) = MaxRows
    /\ Len(files) = 3

(***************************************************************************)
(* C37.  For every column from 0 to 18277 get_column_notation returns a    *)
(* string of one to three letters A-Z: it does not panic and does not      *)
(* index ASCII_UPPER beyond its 26 letters.                                *)
(***************************************************************************)
C37_NoPanicUpToMaxColumn ==
    (notation # None /\ column <= MaxColumn) =>
        /\ notation[1] = "Ok"
        /\ Len(notation[2]) \in 1 .. 3
        /\ \A k \in 1 .. Len(notation[2]) :
              \E j \in 1 .. Len(ASCII_UPPER) : notation[2][k] = ASCII_UPPER[j]

(***************************************************************************)
(* Reading the execute calls of a Graphql value.                           *)
(***************************************************************************)
Exporting == IsSome(graphql.export_prefix) /\ ~IsSome(graphql.import_prefix)

Replaying == IsSome(graphql.import_prefix)

HasReturned(k) == executions[k].result # None

HasFile(path) == \E f \in disk : f.path = path

FileAt(path) == CHOOSE f \in disk : f.path = path

\* The replay has issued the same calls as the exported run, up to call k.
SameCallsUpTo(k) ==
    /\ k <= Len(recorded)
    /\ \A j \in 1 .. k : executions[j].query = recorded[j].query

(***************************************************************************)
(* C38.  The execute calls of one Graphql value take the counts 0, 1, 2,   *)
(* ... in the order of their fetch_add, each count once, whichever call    *)
(* returns first.  When exporting, a call that returns a response has      *)
(* written it to <export_prefix>.<count>.json, and every file written      *)
(* holds the response of the call with the count of its name.  When        *)
(* replaying, a call returns what <import_prefix>.<count>.json holds.  So  *)
(* in a replay of an exported run that issues the same calls, a call       *)
(* returns the response that the call with its count returned in that run. *)
(***************************************************************************)
C38_CountsNameTheFiles ==
    /\ export_counter = Len(executions)
    /\ \A k \in 1 .. Len(executions) : executions[k].count = k - 1
    /\ Exporting =>
          /\ \A k \in 1 .. Len(executions) :
                (HasReturned(k) /\ executions[k].result[1] = "Ok") =>
                    LET path == PathOf(Unwrap(graphql.export_prefix), k - 1)
                    IN  /\ HasFile(path)
                        /\ Ok(FileAt(path).content) = executions[k].result
          /\ \A f \in disk :
                \E k \in 1 .. Len(executions) :
                    /\ f.path = PathOf(Unwrap(graphql.export_prefix), k - 1)
                    /\ f.content.query = executions[k].query
    /\ Replaying =>
          \A k \in 1 .. Len(executions) :
              HasReturned(k) =>
                  LET path == PathOf(Unwrap(graphql.import_prefix), k - 1)
                  IN  /\ HasFile(path) =>
                            executions[k].result = Ok(FileAt(path).content)
                      /\ ~HasFile(path) => executions[k].result = Err("read")
                      /\ (SameCallsUpTo(k) /\ recorded[k].result[1] = "Ok") =>
                            executions[k].result = recorded[k].result

C38_Witness ==
    /\ Replaying
    /\ Len(recorded) = 3
    /\ \A k \in 1 .. 3 : recorded[k].result[1] = "Ok"
    /\ recorded[1].query # recorded[2].query
    /\ recorded[2].result[2].data # recorded[3].result[2].data
    /\ Len(executions) = 3
    /\ SameCallsUpTo(3)
    /\ ~HasReturned(1)
    /\ HasReturned(2)
    /\ executions[2].result = recorded[2].result
    /\ HasReturned(3)
    /\ executions[3].result = recorded[3].result

(***************************************************************************)
(* Reading a run of accumulate_pages.                                      *)
(***************************************************************************)
\* The number of the first page without items.
FirstEmptyPage == CHOOSE n \in 1 .. Len(listing) + 1 :
                      /\ PageOf(listing, n) = <<>>
                      /\ \A m \in 1 .. n - 1 : PageOf(listing, m) # <<>>

\* The items of the pages 1 .. n, in page order.
RECURSIVE ItemsUpTo(_)
ItemsUpTo(n) == IF n = 0 THEN <<>> ELSE ItemsUpTo(n - 1) \o PageOf(listing, n)

(***************************************************************************)
(* C39.  accumulate_pages requests the pages 1, 2, 3, ... in this order,   *)
(* one per turn, and none behind the first page without items.  When it    *)
(* returns Ok it has requested that page as its last, one request more     *)
(* than the pages with items before it, and returns the items of those     *)
(* pages in page order.  When a request fails it returns the error, with   *)
(* no items.                                                               *)
(***************************************************************************)
C39_PagesUntilFirstEmptyOne ==
    page_number >= 1 =>
        /\ \A k \in 1 .. Len(page_requests) : page_requests[k] = k
        /\ Len(page_requests) <= FirstEmptyPage
        /\ acc_result = None =>
              /\ page_number = Len(page_requests) + 1
              /\ accumulated = ItemsUpTo(Len(page_requests))
        /\ acc_result # None =>
              IF acc_result[1] = "Ok"
              THEN /\ Len(page_requests) = FirstEmptyPage
                   /\ acc_result = Ok(ItemsUpTo(FirstEmptyPage - 1))
              ELSE acc_result = Err("request")

C39_Witness ==
    /\ Len(listing) = 3
    /\ Len(listing[1]) = 2
    /\ Len(listing[2]) = 1
    /\ Len(listing[3]) = 2
    /\ page_requests = <<1, 2, 3, 4>>
    /\ acc_result # None
    /\ acc_result[1] = "Ok"
    /\ Len(acc_result[2]) = 5

====
